---- MODULE Spec2Model ----
(***************************************************************************)
(* A model of deno-compile-extra: the file-backed localStorage polyfill    *)
(* (src/src/local-storage-polyfill/mod.ts), the file-backed Cache API      *)
(* polyfill (src/src/caches-polyfill/mod.ts) and the helpers of            *)
(* src/src/utils.ts.                                                       *)
(*                                                                         *)
(* One process at a time runs on a machine whose file system outlives it.  *)
(* A process is one run of a script that imports one of the two polyfill   *)
(* modules; when it exits, its memory (the store instances, the globals)   *)
(* is gone and the files stay.  Every handler is one action: the calls are *)
(* issued one at a time, each one awaited before the next.                 *)
(***************************************************************************)
EXTENDS Naturals, Sequences, FiniteSets, TLC

VARIABLES
  env,                 \* the machine's environment (never changes)
  imported,            \* the polyfill the machine's programs import
  fs,                  \* the files: path -> text
  dirs,                \* the directories that exist
  runs,                \* processes started so far
  faults,              \* file system calls that have failed so far
  proc,                \* the running process, or NoProc
  globalLocalStorage,  \* globalThis.localStorage: "native" or "shim"
  ls,                  \* the LocalStorage instance behind the shim
  peer,                \* the LocalStorage instance of a second process
  globalCaches,        \* globalThis.caches: "native" or "polyfill"
  cachesPolyfillInitialized,  \* globalThis.__cachesPolyfillInitialized
  cs,                  \* the CacheStorageImpl instance behind globalThis.caches
  handles,             \* the CacheImpl objects created so far, in order
  globalFetch,         \* globalThis.fetch: "native" or "patched"
  tasks,               \* the calls in flight: each one's position and locals
  calls,               \* calls started without awaiting the one before
  last                 \* the last call: what it was given and what it did

kvVars == <<globalLocalStorage, ls, peer>>
cacheVars == <<globalCaches, cachesPolyfillInitialized, cs, handles>>
asyncVars == <<globalFetch, tasks, calls>>
vars ==
  <<env, imported, fs, dirs, runs, faults, proc, kvVars, cacheVars, asyncVars,
    last>>

(***************************************************************************)
(* JavaScript values that the code stores in plain objects.  A plain       *)
(* object is the sequence of its own enumerable properties <<key, value>>  *)
(* in insertion order; its prototype is Object.prototype.                  *)
(***************************************************************************)
EmptyObj == << >>

\* Whether Object.prototype has its __proto__ accessor.  The Deno runtime
\* deletes the accessor at startup, which makes "__proto__" a property name
\* like any other, unless the process was started with
\* --unstable-unsafe-proto.
HasProtoAccessor == proc.unsafeProto

\* Names every plain object inherits from Object.prototype (a sample).
ProtoProps ==
  {"constructor", "toString"} \cup
  (IF HasProtoAccessor THEN {"__proto__"} ELSE {})

HasOwn(o, k) == \E i \in 1..Len(o) : o[i][1] = k

OwnIndex(o, k) == CHOOSE i \in 1..Len(o) : o[i][1] = k

OwnKeys(o) == [i \in 1..Len(o) |-> o[i][1]]

\* JSON.parse and object literals: CreateDataProperty, which defines an own
\* property whatever its name.
DefineOwn(o, k, v) ==
  IF HasOwn(o, k) THEN [o EXCEPT ![OwnIndex(o, k)] = <<k, v>>]
  ELSE Append(o, <<k, v>>)

\* o[k] = v for a primitive v (OrdinarySet).  An own property is overwritten
\* in place; an inherited data property is shadowed by a new own property.
\* "__proto__" that is not an own property reaches the accessor of
\* Object.prototype, where there is one: its setter ignores a value that is
\* neither an object nor null, so the assignment stores nothing.
ObjSet(o, k, v) ==
  IF HasOwn(o, k) THEN [o EXCEPT ![OwnIndex(o, k)] = <<k, v>>]
  ELSE IF k = "__proto__" /\ HasProtoAccessor THEN o
  ELSE Append(o, <<k, v>>)

\* delete o[k]
ObjDelete(o, k) == SelectSeq(o, LAMBDA m : m[1] # k)

(***************************************************************************)
(* Files.  A file holds text: either the JSON text of an object (kept as   *)
(* the object's member list, in the order JSON.stringify writes it) or     *)
(* text that JSON.parse rejects.                                           *)
(***************************************************************************)
Garbage == [kind |-> "garbage", members |-> EmptyObj]

\* JSON.stringify of a plain object: its own enumerable properties in order.
JSONstringify(o) == [kind |-> "json", members |-> o]

RECURSIVE ParseMembers(_, _)
ParseMembers(ms, acc) ==
  IF ms = << >> THEN acc
  ELSE ParseMembers(Tail(ms), DefineOwn(acc, Head(ms)[1], Head(ms)[2]))

\* JSON.parse of a text that parses: every member becomes an own property.
JSONparse(text) == ParseMembers(text.members, EmptyObj)

Parses(text) == text.kind = "json"

(***************************************************************************)
(* Paths (@std/path join on a POSIX host): a path is the sequence of its   *)
(* segments, normalized.                                                   *)
(***************************************************************************)
RECURSIVE SplitFrom(_, _, _)
SplitFrom(s, i, start) ==
  IF i > Len(s) THEN
    IF start < i THEN << SubSeq(s, start, i - 1) >> ELSE << >>
  ELSE IF SubSeq(s, i, i) = "/" THEN
    (IF start < i THEN << SubSeq(s, start, i - 1) >> ELSE << >>)
      \o SplitFrom(s, i + 1, i + 1)
  ELSE SplitFrom(s, i + 1, start)

SplitPath(s) == SplitFrom(s, 1, 1)

RECURSIVE NormalizeSegs(_, _)
NormalizeSegs(segs, acc) ==
  IF segs = << >> THEN acc
  ELSE IF Head(segs) = "." THEN NormalizeSegs(Tail(segs), acc)
  ELSE IF Head(segs) = ".." THEN
    NormalizeSegs(Tail(segs),
                  IF acc = << >> THEN acc ELSE SubSeq(acc, 1, Len(acc) - 1))
  ELSE NormalizeSegs(Tail(segs), Append(acc, Head(segs)))

\* path.join(dir, rest) for an absolute, normalized dir.
join(dir, rest) == NormalizeSegs(SplitPath(rest), dir)

\* path.dirname
dirname(path) == SubSeq(path, 1, Len(path) - 1)

IsPrefix(d, p) == Len(d) <= Len(p) /\ SubSeq(p, 1, Len(d)) = d

(***************************************************************************)
(* The machine: the operating system and the environment variables that    *)
(* cacheDir reads.  An unset variable and an empty one are both "": the    *)
(* code tests them for truthiness only.  cacheDir's null is Null.          *)
(***************************************************************************)
Null == ""

Environments ==
  { [os |-> "linux",  XDG_CACHE_HOME |-> "", HOME |-> "/home/u",
     LOCALAPPDATA |-> "", APPDATA |-> ""],
    [os |-> "linux",  XDG_CACHE_HOME |-> "", HOME |-> "",
     LOCALAPPDATA |-> "", APPDATA |-> ""] }

\* A cacheDir that prefers XDG_CACHE_HOME on darwin as it does on linux.
cacheDirXdgOnDarwin(e) ==
  CASE e.os \in {"linux", "darwin"} /\ e.XDG_CACHE_HOME # "" ->
         e.XDG_CACHE_HOME
    [] e.os = "linux" /\ e.XDG_CACHE_HOME = "" ->
         IF e.HOME # "" THEN e.HOME \o "/.cache" ELSE Null
    [] e.os = "darwin" /\ e.XDG_CACHE_HOME = "" ->
         IF e.HOME # "" THEN e.HOME \o "/Library/Caches" ELSE Null
    [] e.os = "windows" ->
         IF e.LOCALAPPDATA # "" THEN e.LOCALAPPDATA
         ELSE IF e.APPDATA # "" THEN e.APPDATA
         ELSE Null
    [] OTHER -> Null

cacheDir(e) ==
  CASE e.os = "linux" ->
         IF e.XDG_CACHE_HOME # "" THEN e.XDG_CACHE_HOME
         ELSE IF e.HOME # "" THEN e.HOME \o "/.cache"
         ELSE Null
    [] e.os = "darwin" ->
         IF e.HOME # "" THEN e.HOME \o "/Library/Caches" ELSE Null
    [] e.os = "windows" ->
         IF e.LOCALAPPDATA # "" THEN e.LOCALAPPDATA
         ELSE IF e.APPDATA # "" THEN e.APPDATA
         ELSE Null
    [] OTHER -> Null

(***************************************************************************)
(* The namespace id.  crypto.subtle.digest("SHA-256", ...) is a platform   *)
(* service: the table holds the digests of the module URLs the model uses. *)
(***************************************************************************)
LocalStorageModule == "src/local-storage-polyfill/mod.ts"
CachesModule == "src/caches-polyfill/mod.ts"
UtilsModule == "src/utils.ts"

digestSHA256(url) ==
  CASE url = "file:///tmp/deno-compile-app1/src/local-storage-polyfill/mod.ts" ->
      <<250, 170, 20, 150, 3, 106, 99, 89, 73, 89, 99, 36, 237, 2, 242, 109, 61, 231, 182, 87, 118, 9, 36, 58, 80, 118, 228, 137, 59, 242, 113, 128>>
    [] url = "file:///tmp/deno-compile-app1/src/caches-polyfill/mod.ts" ->
      <<147, 4, 128, 244, 237, 17, 96, 42, 49, 49, 94, 37, 89, 181, 178, 144, 173, 216, 23, 44, 17, 71, 231, 65, 214, 77, 176, 118, 26, 32, 43, 13>>
    [] url = "file:///tmp/deno-compile-app2/src/local-storage-polyfill/mod.ts" ->
      <<63, 197, 193, 78, 156, 103, 100, 183, 55, 179, 134, 171, 207, 220, 5, 181, 168, 64, 54, 19, 208, 228, 231, 205, 6, 123, 107, 90, 102, 87, 48, 250>>
    [] url = "file:///tmp/deno-compile-app2/src/caches-polyfill/mod.ts" ->
      <<193, 34, 119, 237, 240, 219, 28, 5, 56, 68, 89, 102, 96, 235, 250, 198, 241, 93, 201, 225, 206, 104, 206, 141, 211, 59, 133, 64, 135, 71, 157, 36>>
    [] url = "https://jsr.io/@sigma/deno-compile-extra/0.13.0/src/local-storage-polyfill/mod.ts" ->
      <<183, 26, 27, 8, 50, 148, 186, 126, 68, 166, 2, 64, 164, 230, 122, 164, 195, 23, 126, 173, 6, 173, 195, 143, 210, 106, 245, 80, 58, 154, 187, 44>>
    [] url = "https://jsr.io/@sigma/deno-compile-extra/0.13.0/src/caches-polyfill/mod.ts" ->
      <<9, 2, 152, 32, 104, 60, 252, 156, 241, 8, 65, 217, 60, 190, 164, 110, 12, 114, 113, 56, 85, 53, 7, 103, 28, 234, 162, 135, 10, 20, 237, 56>>
    [] url = "file:///home/u/lib/src/local-storage-polyfill/mod.ts" ->
      <<97, 44, 239, 43, 166, 108, 93, 121, 150, 251, 172, 209, 144, 133, 119, 67, 249, 60, 62, 64, 68, 80, 37, 109, 50, 164, 167, 44, 179, 251, 70, 245>>
    [] url = "file:///home/u/lib/src/caches-polyfill/mod.ts" ->
      <<173, 203, 239, 147, 146, 208, 128, 117, 156, 41, 64, 212, 6, 195, 2, 85, 216, 253, 90, 109, 64, 253, 28, 36, 198, 195, 24, 0, 24, 253, 51, 197>>

HexDigits == "0123456789abcdef"

HexDigit(n) == SubSeq(HexDigits, n + 1, n + 1)

\* b.toString(16).padStart(2, "0") for a byte b
ByteToHex(b) ==
  IF b < 16 THEN "0" \o HexDigit(b)
  ELSE HexDigit(b \div 16) \o HexDigit(b % 16)

RECURSIVE HexJoin(_)
HexJoin(bytes) ==
  IF bytes = << >> THEN "" ELSE ByteToHex(Head(bytes)) \o HexJoin(Tail(bytes))

\* A createStorageId that keeps the first 8 characters only.
createStorageIdShort(url) == SubSeq(HexJoin(digestSHA256(url)), 1, 8)

\* .slice(0, 16)
createStorageId(url) == SubSeq(HexJoin(digestSHA256(url)), 1, 16)

\* String.prototype.includes
Includes(s, t) ==
  \E i \in 1..(Len(s) + 1) :
    i + Len(t) - 1 <= Len(s) /\ SubSeq(s, i, i + Len(t) - 1) = t

(***************************************************************************)
(* Bodies: arrayBufferToBase64 and base64ToArrayBuffer.  A body is a       *)
(* sequence of bytes; its stored form is the base64 text btoa produces.    *)
(***************************************************************************)
Base64Alphabet ==
  "ABCDEFGHIJKLMNOPQRSTUVWXYZabcdefghijklmnopqrstuvwxyz0123456789+/"

Base64Char(n) == SubSeq(Base64Alphabet, n + 1, n + 1)

Base64Value(c) == (CHOOSE i \in 1..64 : SubSeq(Base64Alphabet, i, i) = c) - 1

\* btoa of the binary string whose char codes are the bytes
RECURSIVE arrayBufferToBase64(_)
arrayBufferToBase64(bytes) ==
  IF Len(bytes) = 0 THEN ""
  ELSE IF Len(bytes) = 1 THEN
    Base64Char(bytes[1] \div 4) \o Base64Char((bytes[1] % 4) * 16) \o "=="
  ELSE IF Len(bytes) = 2 THEN
    Base64Char(bytes[1] \div 4)
      \o Base64Char((bytes[1] % 4) * 16 + bytes[2] \div 16)
      \o Base64Char((bytes[2] % 16) * 4) \o "="
  ELSE
    Base64Char(bytes[1] \div 4)
      \o Base64Char((bytes[1] % 4) * 16 + bytes[2] \div 16)
      \o Base64Char((bytes[2] % 16) * 4 + bytes[3] \div 64)
      \o Base64Char(bytes[3] % 64)
      \o arrayBufferToBase64(SubSeq(bytes, 4, Len(bytes)))

\* the bytes atob yields for one group of four characters
Base64Group(g) ==
  LET c1 == Base64Value(SubSeq(g, 1, 1))
      c2 == Base64Value(SubSeq(g, 2, 2))
  IN
  IF SubSeq(g, 3, 4) = "==" THEN << c1 * 4 + c2 \div 16 >>
  ELSE
    LET c3 == Base64Value(SubSeq(g, 3, 3)) IN
    IF SubSeq(g, 4, 4) = "=" THEN
      << c1 * 4 + c2 \div 16, (c2 % 16) * 16 + c3 \div 4 >>
    ELSE
      << c1 * 4 + c2 \div 16, (c2 % 16) * 16 + c3 \div 4,
         (c3 % 4) * 64 + Base64Value(SubSeq(g, 4, 4)) >>

RECURSIVE base64ToArrayBuffer(_)
base64ToArrayBuffer(b64) ==
  IF Len(b64) = 0 THEN << >>
  ELSE Base64Group(SubSeq(b64, 1, 4))
         \o base64ToArrayBuffer(SubSeq(b64, 5, Len(b64)))

(***************************************************************************)
(* Headers.  A Headers object is its header list <<name, value>> in the    *)
(* order the headers were appended.  Iterating it (forEach) yields the     *)
(* names in lower case, sorted, the values of one name joined by ", ";     *)
(* Set-Cookie alone is yielded once per value.                             *)
(***************************************************************************)
LowerName(n) ==
  CASE n = "Content-Type" -> "content-type"
    [] n = "Set-Cookie" -> "set-cookie"
    [] OTHER -> n

\* The lower-case header names of the model, sorted.
SortedHeaderNames == << "content-type", "set-cookie" >>

ValuesOf(h, name) ==
  LET sel == SelectSeq(h, LAMBDA e : LowerName(e[1]) = name)
  IN [i \in 1..Len(sel) |-> sel[i][2]]

RECURSIVE JoinValues(_)
JoinValues(vs) ==
  IF Len(vs) = 1 THEN vs[1] ELSE vs[1] \o ", " \o JoinValues(Tail(vs))

EntriesOfName(h, name) ==
  LET vs == ValuesOf(h, name) IN
  IF vs = << >> THEN << >>
  ELSE IF name = "set-cookie" THEN [i \in 1..Len(vs) |-> <<name, vs[i]>>]
  ELSE << <<name, JoinValues(vs)>> >>

RECURSIVE EntriesFrom(_, _)
EntriesFrom(h, names) ==
  IF names = << >> THEN << >>
  ELSE EntriesOfName(h, Head(names)) \o EntriesFrom(h, Tail(names))

\* What headers.forEach visits, and what two Headers objects are compared by.
HeaderEntries(h) == EntriesFrom(h, SortedHeaderNames)

RECURSIVE AssignAll(_, _)
AssignAll(entries, record) ==
  IF entries = << >> THEN record
  ELSE AssignAll(Tail(entries),
                 ObjSet(record, Head(entries)[1], Head(entries)[2]))

\* headersToRecord: record[key] = value for every entry visited
headersToRecord(h) == AssignAll(HeaderEntries(h), EmptyObj)

\* new Headers(record): one header per own property
NewHeaders(record) == record

(***************************************************************************)
(* Requests and responses.                                                 *)
(***************************************************************************)
\* The WHATWG URL parser and serializer, on the URL texts of the model:
\* the host is lower-cased.
URLhref(text) ==
  CASE text = "https://X/a" -> "https://x/a"
    [] OTHER -> text

\* An input of put, match and delete: a Request object (url holds its
\* serialized URL) or a string (url holds the text as written).
RequestObject(u) ==
  [kind |-> "Request", url |-> URLhref(u), method |-> "GET", headers |-> << >>]

URLString(text) ==
  [kind |-> "string", url |-> text, method |-> "", headers |-> << >>]

\* request instanceof Request ? request : new Request(request)
NewRequest(input) ==
  IF input.kind = "Request" THEN input ELSE RequestObject(input.url)

\* getRequestKey
getRequestKey(input) ==
  IF input.kind = "Request" THEN input.url ELSE input.url

ResponseOf(status, statusText, headers, body) ==
  [status |-> status, statusText |-> statusText, headers |-> headers,
   body |-> body]

NoResponse == ResponseOf(0, "", << >>, << >>)

\* The statuses for which the Response constructor refuses a body.
NullBodyStatus == {101, 103, 204, 205, 304}

\* new Response(body, {status, statusText, headers}) with a body that is not
\* null: a RangeError for a status outside 200..599, a TypeError for a null
\* body status.
ResponseConstructorThrows(status) ==
  status \notin 200..599 \/ status \in NullBodyStatus

\* The entry put stores for a request and a response.
StoredCacheEntry(req, response) ==
  [request |-> [url |-> req.url, method |-> req.method,
                headers |-> headersToRecord(req.headers)],
   response |-> [status |-> response.status,
                 statusText |-> response.statusText,
                 headers |-> headersToRecord(response.headers),
                 body |-> arrayBufferToBase64(response.body)]]

\* The response match builds from a stored entry.
ResponseFromEntry(entry) ==
  ResponseOf(entry.response.status, entry.response.statusText,
             NewHeaders(entry.response.headers),
             base64ToArrayBuffer(entry.response.body))

SameResponse(r1, r2) ==
  /\ r1.status = r2.status
  /\ r1.statusText = r2.statusText
  /\ HeaderEntries(r1.headers) = HeaderEntries(r2.headers)
  /\ r1.body = r2.body

(***************************************************************************)
(* Bounds and inputs.                                                      *)
(***************************************************************************)
\* How many processes run one after the other in a behaviour.
MaxRuns == 2

\* How many file system calls fail in a behaviour.
MaxFaults == 1

\* Where the package's modules are loaded from (import.meta.url is the base
\* followed by the module's path).
App1Base == "file:///tmp/deno-compile-app1/"
App2Base == "file:///tmp/deno-compile-app2/"
JsrBase == "https://jsr.io/@sigma/deno-compile-extra/0.13.0/"
LibBase == "file:///home/u/lib/"

\* The namespace ids of the module URLs above.  createStorageId is a pure
\* function of the URL, so each id is computed once.
ModuleUrls ==
  { b \o m : b \in {App1Base, App2Base, JsrBase, LibBase},
              m \in {LocalStorageModule, CachesModule} }

storageId == [url \in ModuleUrls |-> createStorageId(url)]

\* import.meta.url.includes("deno-compile") in utils.ts, per base URL
includesDenoCompile ==
  [b \in {App1Base, App2Base, JsrBase, LibBase} |->
     Includes(b \o UtilsModule, "deno-compile")]

\* The processes: standalone says whether the process is a compiled
\* executable (Deno.build.standalone), nativeLocalStorage whether reading
\* the runtime's own localStorage.length throws (it does in a compiled
\* executable, src/src/utils.ts:56), imports which polyfill the script uses,
\* unsafeProto whether the runtime keeps Object.prototype.__proto__.
Profile(b, sa, nls, imp, up) ==
  [base |-> b, standalone |-> sa, nativeLocalStorage |-> nls, imports |-> imp,
   unsafeProto |-> up]

Profiles ==
  { Profile(App1Base, TRUE, "throws", "localStorage", FALSE),
    Profile(App1Base, TRUE, "throws", "localStorage", TRUE),
    Profile(App2Base, TRUE, "throws", "localStorage", FALSE),
    Profile(App1Base, TRUE, "throws", "caches", FALSE),
    Profile(App2Base, TRUE, "throws", "caches", FALSE),
    Profile(JsrBase, FALSE, "works", "localStorage", FALSE),
    Profile(JsrBase, FALSE, "throws", "localStorage", FALSE),
    Profile(LibBase, FALSE, "throws", "localStorage", FALSE),
    Profile(JsrBase, FALSE, "works", "caches", FALSE) }

NoProc == Profile("", FALSE, "works", "none", FALSE)

\* The keys and values a script passes to setItem and removeItem.
KVKeys == {"a", "__proto__"}
KVValues == {"v", "w"}

\* How many cache handles one process obtains from open.
MaxHandles == 1

\* The cache names a script passes to open, has and delete: a plain name, and
\* a name that climbs out of the namespace directory into App2's.
PlainName == "c1"
ClimbingName == "../" \o storageId[App2Base \o CachesModule] \o "/c1"
CacheNames == {PlainName, ClimbingName}

\* A request that differs from RequestObject("https://x/a") in its method
\* and its headers.
PostRequest ==
  [kind |-> "Request", url |-> "https://x/a", method |-> "POST",
   headers |-> << <<"Content-Type", "text/plain">> >>]

\* The requests a script passes to put, and to match and delete.
PutInputs ==
  { RequestObject("https://x/a"), URLString("https://x/a"),
    URLString("https://X/a"), PostRequest }
QueryInputs ==
  { RequestObject("https://x/a"), URLString("https://x/a"),
    URLString("https://X/a"), URLString("https://x/b") }

\* The responses a script passes to put.
Response200 ==
  ResponseOf(200, "OK", << <<"Content-Type", "text/plain">> >>, <<104, 105>>)
Response204 == ResponseOf(204, "No Content", << >>, << >>)
PutResponses == {Response200, Response204}

(***************************************************************************)
(* State.                                                                  *)
(***************************************************************************)

NoStorage == [storagePath |-> << >>, storageData |-> EmptyObj]

NoCacheStorage ==
  [initialized |-> FALSE, storageRoot |-> << >>, caches |-> << >>]

NoRequest == URLString("")

\* op: the call; status: "ok" (it returned) or "throw"; key, val: the key
\* and value of a key-value call, or the cache name; h, req, given: the
\* handle, request and response of a cache call; ret, resp: what it
\* returned; warned: console.warn was called; io: the kinds of file system
\* calls it made.
NoLast ==
  [op |-> "none", status |-> "ok", key |-> "", val |-> "", ret |-> "",
   warned |-> FALSE, io |-> {}, h |-> 0, req |-> NoRequest,
   given |-> NoResponse, resp |-> NoResponse]

Call(op, status, key, val, ret, warned, io) ==
  [NoLast EXCEPT !.op = op, !.status = status, !.key = key, !.val = val,
                 !.ret = ret, !.warned = warned, !.io = io]

CacheCall(op, status, h, req, given, ret, resp, io) ==
  [NoLast EXCEPT !.op = op, !.status = status, !.h = h, !.req = req,
                 !.given = given, !.ret = ret, !.resp = resp, !.io = io]

(***************************************************************************)
(* The file system calls.                                                  *)
(***************************************************************************)
FileExists(f, path) == path \in DOMAIN f

WriteFile(f, path, text) ==
  [q \in (DOMAIN f) \cup {path} |-> IF q = path THEN text ELSE f[q]]

\* Deno.remove that leaves the file in place.
RemoveFileKeepsFile(f, path) == f

RemoveFile(f, path) == [q \in (DOMAIN f) \ {path} |-> f[q]]

\* The file system calls that may fail now, given the ones that could.
Failures(candidates) ==
  {"none"} \cup (IF faults < MaxFaults THEN candidates ELSE {})

Fault(fail) == faults' = IF fail = "none" THEN faults ELSE faults + 1

\* ensureDir: the directory and every missing ancestor
ensureDir(d, path) == d \cup { SubSeq(path, 1, n) : n \in 1..Len(path) }

(***************************************************************************)
(* src/src/utils.ts                                                        *)
(***************************************************************************)
\* try_(() => localStorage.length).isErr()
LocalStorageLengthThrows ==
  globalLocalStorage = "native" /\ proc.nativeLocalStorage = "throws"

isStandaloneDenoExe ==
  /\ includesDenoCompile[proc.base]
  /\ LocalStorageLengthThrows

(***************************************************************************)
(* src/src/local-storage-polyfill/mod.ts                                   *)
(***************************************************************************)
LocalStorageDir(cd) == join(SplitPath(cd), "deno-localStorage")

LocalStoragePath(cd, url) ==
  join(LocalStorageDir(cd), storageId[url] \o ".json")

\* What LocalStorage.setup reads from the file at path: the parsed object,
\* or the empty object when the file is missing or does not parse.
LoadStorageData(f, path) ==
  IF FileExists(f, path) /\ Parses(f[path]) THEN JSONparse(f[path])
  ELSE EmptyObj

\* LocalStorage.setup and the installation of the shim, past the guard and
\* the assert.  fail names the one file system call that fails, if any.
LocalStorageSetup(fail) ==
  LET cd == cacheDir(env)
      dir == LocalStorageDir(cd)
      path == LocalStoragePath(cd, proc.base \o LocalStorageModule)
      readFails == FileExists(fs, path) /\ fail = "read"
      loaded == FileExists(fs, path) /\ Parses(fs[path]) /\ ~readFails
      warn == FileExists(fs, path) /\ ~loaded
  IN
  /\ fail = "read" => FileExists(fs, path)
  /\ fail = "write" => ~loaded
  /\ Fault(fail)
  /\ IF fail = "mkdir" THEN
         /\ last' = Call("setupLocalStorage", "throw", "", "", "", FALSE, {"mkdir"})
         /\ UNCHANGED <<fs, dirs, globalLocalStorage, ls>>
       ELSE IF loaded THEN
         /\ dirs' = ensureDir(dirs, dir)
         /\ ls' = [storagePath |-> path, storageData |-> JSONparse(fs[path])]
         /\ globalLocalStorage' = "shim"
         /\ last' = Call("setupLocalStorage", "ok", "", "", "", FALSE,
                         {"mkdir", "read"})
         /\ UNCHANGED fs
       ELSE IF fail = "write" THEN
         /\ dirs' = ensureDir(dirs, dir)
         /\ last' = Call("setupLocalStorage", "throw", "", "", "", warn,
                         {"mkdir", "read", "write"})
         /\ UNCHANGED <<fs, globalLocalStorage, ls>>
       ELSE
         /\ dirs' = ensureDir(dirs, dir)
         /\ fs' = WriteFile(fs, path, JSONstringify(EmptyObj))
         /\ ls' = [storagePath |-> path, storageData |-> EmptyObj]
         /\ globalLocalStorage' = "shim"
         /\ last' = Call("setupLocalStorage", "ok", "", "", "", warn,
                         {"mkdir", "read", "write"})

\* setupLocalStorage without the assert on cacheDir's result.
setupLocalStorageWithoutAssert ==
  /\ proc.imports = "localStorage"
  /\ IF ~isStandaloneDenoExe THEN
       /\ last' = Call("setupLocalStorage", "ok", "", "", "", FALSE, {})
       /\ UNCHANGED <<fs, dirs, faults, globalLocalStorage, ls>>
     ELSE \E fail \in Failures({"mkdir", "read", "write"}) :
            LocalStorageSetup(fail)
  /\ UNCHANGED <<env, imported, asyncVars, runs, proc, peer, cacheVars>>

setupLocalStorage ==
  /\ proc.imports = "localStorage"
  /\ IF ~isStandaloneDenoExe THEN
       /\ last' = Call("setupLocalStorage", "ok", "", "", "", FALSE, {})
       /\ UNCHANGED <<fs, dirs, faults, globalLocalStorage, ls>>
     ELSE IF cacheDir(env) = Null THEN
       /\ last' = Call("setupLocalStorage", "throw", "", "", "", FALSE, {})
       /\ UNCHANGED <<fs, dirs, faults, globalLocalStorage, ls>>
     ELSE \E fail \in Failures({"mkdir", "read", "write"}) :
            LocalStorageSetup(fail)
  /\ UNCHANGED <<env, imported, asyncVars, runs, proc, peer, cacheVars>>

\* saveData without its write: the document changes in memory only.
saveDataWithoutWrite(f, store) == f

\* saveData: Deno.writeTextFileSync(storagePath, JSON.stringify(storageData))
saveData(f, store) == WriteFile(f, store.storagePath, JSONstringify(store.storageData))

\* getItem: this.storageData[key] ?? null.  A name inherited from
\* Object.prototype is read through the prototype chain.
getItem(store, key) ==
  IF HasOwn(store.storageData, key) THEN
    [kind |-> "string",
     value |-> store.storageData[OwnIndex(store.storageData, key)][2]]
  ELSE IF key \in ProtoProps THEN [kind |-> "object", value |-> ""]
  ELSE [kind |-> "null", value |-> ""]

\* get length
length(store) == Len(OwnKeys(store.storageData))

\* key(index)
key(store, index) ==
  IF index + 1 \in 1..Len(OwnKeys(store.storageData))
  THEN [kind |-> "string", value |-> OwnKeys(store.storageData)[index + 1]]
  ELSE [kind |-> "null", value |-> ""]

\* A mutating call whose setItem updates the document it reads back from
\* the file, keeping what another instance wrote there.
MutateReadModifyWrite(op, k, v, data, fail) ==
  /\ globalLocalStorage = "shim"
  /\ ls' = [ls EXCEPT !.storageData = data]
  /\ Fault(fail)
  /\ IF fail = "none" THEN
       /\ fs' = IF op = "setItem" /\ FileExists(fs, ls.storagePath)
                   /\ Parses(fs[ls.storagePath])
                THEN WriteFile(fs, ls.storagePath,
                               JSONstringify(ObjSet(JSONparse(fs[ls.storagePath]),
                                                    k, v)))
                ELSE saveData(fs, ls')
       /\ last' = Call(op, "ok", k, v, "", FALSE, {"write"})
     ELSE
       /\ last' = Call(op, "throw", k, v, "", FALSE, {"write"})
       /\ UNCHANGED fs
  /\ UNCHANGED <<env, imported, asyncVars, dirs, runs, proc,
                 globalLocalStorage, peer, cacheVars>>

\* A mutating call: the document is changed first, then saved; a failing
\* write throws after the change.
Mutate(op, k, v, data, fail) ==
  /\ globalLocalStorage = "shim"
  /\ ls' = [ls EXCEPT !.storageData = data]
  /\ Fault(fail)
  /\ IF fail = "none" THEN
       /\ fs' = saveData(fs, ls')
       /\ last' = Call(op, "ok", k, v, "", FALSE, {"write"})
     ELSE
       /\ last' = Call(op, "throw", k, v, "", FALSE, {"write"})
       /\ UNCHANGED fs
  /\ UNCHANGED <<env, imported, asyncVars, dirs, runs, proc,
                 globalLocalStorage, peer, cacheVars>>

setItem(k, v) ==
  \E fail \in Failures({"write"}) :
    Mutate("setItem", k, v, ObjSet(ls.storageData, k, v), fail)

removeItem(k) ==
  \E fail \in Failures({"write"}) :
    Mutate("removeItem", k, "", ObjDelete(ls.storageData, k), fail)

\* clear that saves without resetting storageData.
clearKeepsData ==
  \E fail \in Failures({"write"}) :
    Mutate("clear", "", "", ls.storageData, fail)

clear ==
  \E fail \in Failures({"write"}) : Mutate("clear", "", "", EmptyObj, fail)

(***************************************************************************)
(* src/src/caches-polyfill/mod.ts: CacheImpl                               *)
(***************************************************************************)
\* #data = { entries: {} }
EmptyCacheData == << <<"entries", EmptyObj>> >>

\* new CacheImpl(cacheName, storagePath)
CacheImpl(name, path) ==
  [cacheName |-> name, storagePath |-> path, data |-> EmptyCacheData,
   loaded |-> FALSE]

\* this.#data.entries
EntriesOf(data) == data[OwnIndex(data, "entries")][2]

\* #load, when no file system call fails: whether it throws, and the
\* document it leaves in #data.
LoadThrows(f, path) == FileExists(f, path) /\ ~Parses(f[path])

LoadedData(f, path) ==
  IF FileExists(f, path) THEN
    LET parsed == JSONparse(f[path]) IN
    IF HasOwn(parsed, "entries") THEN parsed
    ELSE ObjSet(parsed, "entries", EmptyObj)
  ELSE EmptyCacheData

\* #ensureLoaded: the handle after it, and whether it threw.  fail = "read"
\* is a failure of exists or readTextFile.
EnsureLoadedThrows(c, fail) ==
  ~c.loaded /\ (fail = "read" \/ LoadThrows(fs, c.storagePath))

EnsureLoaded(c, fail) ==
  IF c.loaded \/ EnsureLoadedThrows(c, fail) THEN c
  ELSE [c EXCEPT !.data = LoadedData(fs, c.storagePath), !.loaded = TRUE]

\* this.#data.entries[key] = entry
WithEntry(data, k, entry) ==
  DefineOwn(data, "entries", ObjSet(EntriesOf(data), k, entry))

\* delete this.#data.entries[key]
WithoutEntry(data, k) ==
  DefineOwn(data, "entries", ObjDelete(EntriesOf(data), k))

\* this.#data.entries[key], tested for truthiness
HasEntry(data, k) == HasOwn(EntriesOf(data), k) \/ k \in ProtoProps

\* #save: ensureDir(dirname(storagePath)), then writeTextFile
SaveFs(f, c) == WriteFile(f, c.storagePath, JSONstringify(c.data))

SaveDirs(d, c) == ensureDir(d, dirname(c.storagePath))

\* The failures a handle's call may meet: a read only while it is unloaded.
HandleFailures(c, writes) ==
  Failures((IF c.loaded THEN {} ELSE {"read"}) \cup writes)

IoOfLoad(c) == IF c.loaded THEN {} ELSE {"read"}

put(h, input, response) ==
  /\ globalCaches = "polyfill"
  /\ h \in 1..Len(handles)
  /\ \E fail \in HandleFailures(handles[h], {"mkdir", "write"}) :
       LET c0 == handles[h]
           c1 == EnsureLoaded(c0, fail)
           req == NewRequest(input)
           c2 == [c1 EXCEPT !.data =
                    WithEntry(c1.data, getRequestKey(req),
                              StoredCacheEntry(req, response))]
       IN
       /\ Fault(fail)
       /\ IF EnsureLoadedThrows(c0, fail) THEN
            /\ last' = CacheCall("put", "throw", h, input, response, "",
                                 NoResponse, {"read"})
            /\ UNCHANGED <<fs, dirs, handles>>
          ELSE IF fail = "mkdir" THEN
            /\ handles' = [handles EXCEPT ![h] = c2]
            /\ last' = CacheCall("put", "throw", h, input, response, "",
                                 NoResponse, IoOfLoad(c0) \cup {"mkdir"})
            /\ UNCHANGED <<fs, dirs>>
          ELSE IF fail = "write" THEN
            /\ handles' = [handles EXCEPT ![h] = c2]
            /\ dirs' = SaveDirs(dirs, c2)
            /\ last' = CacheCall("put", "throw", h, input, response, "",
                                 NoResponse,
                                 IoOfLoad(c0) \cup {"mkdir", "write"})
            /\ UNCHANGED fs
          ELSE
            /\ handles' = [handles EXCEPT ![h] = c2]
            /\ dirs' = SaveDirs(dirs, c2)
            /\ fs' = SaveFs(fs, c2)
            /\ last' = CacheCall("put", "ok", h, input, response, "",
                                 NoResponse,
                                 IoOfLoad(c0) \cup {"mkdir", "write"})
  /\ UNCHANGED <<env, imported, asyncVars, runs, proc, kvVars, globalCaches,
                 cachesPolyfillInitialized, cs>>

\* match on a loaded document: what it returns, or that it throws.
MatchOutcome(data, input) ==
  LET k == getRequestKey(input)
      entries == EntriesOf(data)
  IN
  IF ~HasEntry(data, k) THEN
    [status |-> "ok", ret |-> "undefined", resp |-> NoResponse]
  ELSE IF ~HasOwn(entries, k) THEN
    \* an inherited property has no response field
    [status |-> "throw", ret |-> "", resp |-> NoResponse]
  ELSE
    LET entry == entries[OwnIndex(entries, k)][2] IN
    IF ResponseConstructorThrows(entry.response.status) THEN
      [status |-> "throw", ret |-> "", resp |-> NoResponse]
    ELSE
      [status |-> "ok", ret |-> "response", resp |-> ResponseFromEntry(entry)]

match(h, input) ==
  /\ globalCaches = "polyfill"
  /\ h \in 1..Len(handles)
  /\ \E fail \in HandleFailures(handles[h], {}) :
       LET c0 == handles[h]
           c1 == EnsureLoaded(c0, fail)
           out == MatchOutcome(c1.data, input)
       IN
       /\ Fault(fail)
       /\ IF EnsureLoadedThrows(c0, fail) THEN
            /\ last' = CacheCall("match", "throw", h, input, NoResponse, "",
                                 NoResponse, {"read"})
            /\ UNCHANGED handles
          ELSE
            /\ handles' = [handles EXCEPT ![h] = c1]
            /\ last' = CacheCall("match", out.status, h, input, NoResponse,
                                 out.ret, out.resp, IoOfLoad(c0))
  /\ UNCHANGED <<env, imported, asyncVars, fs, dirs, runs, proc, kvVars, globalCaches,
                 cachesPolyfillInitialized, cs>>

cacheDelete(h, input) ==
  /\ globalCaches = "polyfill"
  /\ h \in 1..Len(handles)
  /\ \E fail \in HandleFailures(handles[h], {"mkdir", "write"}) :
       LET c0 == handles[h]
           c1 == EnsureLoaded(c0, fail)
           k == getRequestKey(input)
           c2 == [c1 EXCEPT !.data = WithoutEntry(c1.data, k)]
       IN
       /\ Fault(fail)
       /\ IF EnsureLoadedThrows(c0, fail) THEN
            /\ last' = CacheCall("delete", "throw", h, input, NoResponse, "",
                                 NoResponse, {"read"})
            /\ UNCHANGED <<fs, dirs, handles>>
          ELSE IF ~HasEntry(c1.data, k) THEN
            /\ fail = "none"
            /\ handles' = [handles EXCEPT ![h] = c1]
            /\ last' = CacheCall("delete", "ok", h, input, NoResponse,
                                 "false", NoResponse, IoOfLoad(c0))
            /\ UNCHANGED <<fs, dirs>>
          ELSE IF fail = "mkdir" THEN
            /\ handles' = [handles EXCEPT ![h] = c2]
            /\ last' = CacheCall("delete", "throw", h, input, NoResponse, "",
                                 NoResponse, IoOfLoad(c0) \cup {"mkdir"})
            /\ UNCHANGED <<fs, dirs>>
          ELSE IF fail = "write" THEN
            /\ handles' = [handles EXCEPT ![h] = c2]
            /\ dirs' = SaveDirs(dirs, c2)
            /\ last' = CacheCall("delete", "throw", h, input, NoResponse, "",
                                 NoResponse,
                                 IoOfLoad(c0) \cup {"mkdir", "write"})
            /\ UNCHANGED fs
          ELSE
            /\ handles' = [handles EXCEPT ![h] = c2]
            /\ dirs' = SaveDirs(dirs, c2)
            /\ fs' = SaveFs(fs, c2)
            /\ last' = CacheCall("delete", "ok", h, input, NoResponse,
                                 "true", NoResponse,
                                 IoOfLoad(c0) \cup {"mkdir", "write"})
  /\ UNCHANGED <<env, imported, asyncVars, runs, proc, kvVars, globalCaches,
                 cachesPolyfillInitialized, cs>>

(***************************************************************************)
(* src/src/caches-polyfill/mod.ts: CacheStorageImpl, setupCachesPolyfill   *)
(***************************************************************************)
\* #initialize: path.join(cacheDirPath, "deno-cache-api", storageId)
StorageRoot(cd, url) ==
  join(join(SplitPath(cd), "deno-cache-api"), storageId[url])

\* path.join(this.#storageRoot, `${cacheName}.json`)
CachePath(root, name) == join(root, name \o ".json")

\* exists(storagePath, { isFile: true })
exists(f, path) == FileExists(f, path)

\* A setup that installs its CacheStorageImpl as globalThis.caches before it
\* awaits the initialisation.
setupCachesPolyfillInstallsFirst ==
  /\ proc.imports = "caches"
  /\ IF ~proc.standalone \/ cachesPolyfillInitialized THEN
       /\ last' = Call("setupCachesPolyfill", "ok", "", "", "", FALSE, {})
       /\ UNCHANGED <<dirs, faults, cacheVars>>
     ELSE IF cacheDir(env) = Null THEN
       /\ globalCaches' = "polyfill"
       /\ last' = Call("setupCachesPolyfill", "throw", "", "", "", FALSE, {})
       /\ UNCHANGED <<dirs, faults, cachesPolyfillInitialized, cs, handles>>
     ELSE \E fail \in Failures({"mkdir"}) :
       LET root == StorageRoot(cacheDir(env), proc.base \o CachesModule) IN
       /\ Fault(fail)
       /\ IF fail = "mkdir" THEN
            /\ globalCaches' = "polyfill"
            /\ cs' = [cs EXCEPT !.storageRoot = root]
            /\ last' = Call("setupCachesPolyfill", "throw", "", "", "", FALSE,
                            {"mkdir"})
            /\ UNCHANGED <<dirs, cachesPolyfillInitialized, handles>>
          ELSE
            /\ dirs' = ensureDir(dirs, root)
            /\ cs' = [initialized |-> TRUE, storageRoot |-> root,
                      caches |-> << >>]
            /\ globalCaches' = "polyfill"
            /\ cachesPolyfillInitialized' = TRUE
            /\ last' = Call("setupCachesPolyfill", "ok", "", "", "", FALSE,
                            {"mkdir"})
            /\ UNCHANGED handles
  /\ UNCHANGED <<env, imported, asyncVars, fs, runs, proc, kvVars>>

setupCachesPolyfill ==
  /\ proc.imports = "caches"
  /\ IF ~proc.standalone \/ cachesPolyfillInitialized THEN
       /\ last' = Call("setupCachesPolyfill", "ok", "", "", "", FALSE, {})
       /\ UNCHANGED <<dirs, faults, cacheVars>>
     ELSE IF cacheDir(env) = Null THEN
       /\ last' = Call("setupCachesPolyfill", "throw", "", "", "", FALSE, {})
       /\ UNCHANGED <<dirs, faults, cacheVars>>
     ELSE \E fail \in Failures({"mkdir"}) :
       LET root == StorageRoot(cacheDir(env), proc.base \o CachesModule) IN
       /\ Fault(fail)
       /\ IF fail = "mkdir" THEN
            /\ last' = Call("setupCachesPolyfill", "throw", "", "", "", FALSE,
                            {"mkdir"})
            /\ UNCHANGED <<dirs, cacheVars>>
          ELSE
            /\ dirs' = ensureDir(dirs, root)
            /\ cs' = [initialized |-> TRUE, storageRoot |-> root,
                      caches |-> << >>]
            /\ globalCaches' = "polyfill"
            /\ cachesPolyfillInitialized' = TRUE
            /\ last' = Call("setupCachesPolyfill", "ok", "", "", "", FALSE,
                            {"mkdir"})
            /\ UNCHANGED handles
  /\ UNCHANGED <<env, imported, asyncVars, fs, runs, proc, kvVars>>

open(name) ==
  /\ globalCaches = "polyfill"
  /\ IF name \in DOMAIN cs.caches THEN
       /\ last' = [CacheCall("open", "ok", cs.caches[name], NoRequest,
                             NoResponse, "existing", NoResponse, {})
                     EXCEPT !.key = name]
       /\ UNCHANGED <<cs, handles>>
     ELSE
       /\ Len(handles) < MaxHandles
       /\ handles' = Append(handles,
                            CacheImpl(name, CachePath(cs.storageRoot, name)))
       /\ cs' = [cs EXCEPT !.caches =
                   [n \in (DOMAIN cs.caches) \cup {name} |->
                      IF n = name THEN Len(handles) + 1 ELSE cs.caches[n]]]
       /\ last' = [CacheCall("open", "ok", Len(handles) + 1, NoRequest,
                             NoResponse, "new", NoResponse, {})
                     EXCEPT !.key = name]
  /\ UNCHANGED <<env, imported, asyncVars, fs, dirs, runs, faults, proc, kvVars, globalCaches,
                 cachesPolyfillInitialized>>

\* has: exists(path.join(this.#storageRoot, `${cacheName}.json`))
HasResult(f, root, name) == exists(f, CachePath(root, name))

\* A has that answers from a handle it opens for the name.
hasOpensHandle(name) ==
  /\ globalCaches = "polyfill"
  /\ name \notin DOMAIN cs.caches => Len(handles) < MaxHandles
  /\ handles' = IF name \in DOMAIN cs.caches THEN handles
                ELSE Append(handles,
                            CacheImpl(name, CachePath(cs.storageRoot, name)))
  /\ cs' = [cs EXCEPT !.caches =
              [n \in (DOMAIN cs.caches) \cup {name} |->
                 IF n \in DOMAIN cs.caches THEN cs.caches[n]
                 ELSE Len(handles) + 1]]
  /\ last' = Call("has", "ok", name, "",
                  IF HasResult(fs, cs.storageRoot, name)
                  THEN "true" ELSE "false",
                  FALSE, {"read"})
  /\ UNCHANGED <<env, imported, asyncVars, fs, dirs, runs, faults, proc,
                 kvVars, globalCaches, cachesPolyfillInitialized>>

has(name) ==
  /\ globalCaches = "polyfill"
  /\ last' = Call("has", "ok", name, "",
                  IF HasResult(fs, cs.storageRoot, name)
                  THEN "true" ELSE "false",
                  FALSE, {"read"})
  /\ UNCHANGED <<env, imported, asyncVars, fs, dirs, runs, faults, proc, kvVars, cacheVars>>

\* A CacheStorage.delete that answers from the file alone.
storageDeleteReportsDisk(name) ==
  /\ globalCaches = "polyfill"
  /\ \E fail \in Failures({"remove"}) :
       LET existedInMemory == name \in DOMAIN cs.caches
           storagePath == CachePath(cs.storageRoot, name)
           existedOnDisk == exists(fs, storagePath)
       IN
       /\ fail = "remove" => existedOnDisk
       /\ Fault(fail)
       /\ cs' = [cs EXCEPT !.caches =
                   [n \in (DOMAIN cs.caches) \ {name} |-> cs.caches[n]]]
       /\ IF fail = "remove" THEN
            /\ last' = Call("caches.delete", "throw", name, "", "", FALSE,
                            {"read", "remove"})
            /\ UNCHANGED fs
          ELSE
            /\ fs' = IF existedOnDisk THEN RemoveFile(fs, storagePath) ELSE fs
            /\ last' = Call("caches.delete", "ok", name, "",
                            IF existedOnDisk
                            THEN "true" ELSE "false",
                            FALSE,
                            IF existedOnDisk THEN {"read", "remove"}
                            ELSE {"read"})
  /\ UNCHANGED <<env, imported, asyncVars, dirs, runs, proc, kvVars, globalCaches,
                 cachesPolyfillInitialized, handles>>

storageDelete(name) ==
  /\ globalCaches = "polyfill"
  /\ \E fail \in Failures({"remove"}) :
       LET existedInMemory == name \in DOMAIN cs.caches
           storagePath == CachePath(cs.storageRoot, name)
           existedOnDisk == exists(fs, storagePath)
       IN
       /\ fail = "remove" => existedOnDisk
       /\ Fault(fail)
       /\ cs' = [cs EXCEPT !.caches =
                   [n \in (DOMAIN cs.caches) \ {name} |-> cs.caches[n]]]
       /\ IF fail = "remove" THEN
            /\ last' = Call("caches.delete", "throw", name, "", "", FALSE,
                            {"read", "remove"})
            /\ UNCHANGED fs
          ELSE
            /\ fs' = IF existedOnDisk THEN RemoveFile(fs, storagePath) ELSE fs
            /\ last' = Call("caches.delete", "ok", name, "",
                            IF existedInMemory \/ existedOnDisk
                            THEN "true" ELSE "false",
                            FALSE,
                            IF existedOnDisk THEN {"read", "remove"}
                            ELSE {"read"})
  /\ UNCHANGED <<env, imported, asyncVars, dirs, runs, proc, kvVars, globalCaches,
                 cachesPolyfillInitialized, handles>>

(***************************************************************************)
(* Calls in flight.  An async method runs until its next await; what       *)
(* follows the await runs later, and other calls may run in between.  A    *)
(* task is one call a script has started and not necessarily awaited: pc   *)
(* is the await it stands at.  Every action below is the code between two  *)
(* awaits.  The file system calls of these actions succeed, except a read  *)
(* of a file that is gone or does not parse.                               *)
(***************************************************************************)
\* How many calls a script has in flight at once, and how many it starts.
MaxTasks == 2
MaxCalls == 3

\* How many cache handles a script with calls in flight obtains from open.
MaxAsyncHandles == 2

\* op: the method; pc: the await the call stands at, "done" once its promise
\* is settled; status: "pending", "ok" (resolved) or "throw" (rejected);
\* name, h, req, given, batch: what the call was given; ret, resp, error:
\* what it settled with (error: the URL and status a TypeError of addAll
\* names); io: the file system calls it made; subs: the saves it has started
\* (one per put, per request of a batch); existedInMemory: the local of
\* CacheStorageImpl.delete.  overlapped: another call was in flight when this
\* one started.  crossed: a CacheStorage.delete of the name went by since
\* this open started.
NoTask ==
  [op |-> "none", pc |-> "done", status |-> "ok", name |-> "", h |-> 0,
   req |-> NoRequest, given |-> NoResponse, batch |-> << >>, ret |-> "",
   resp |-> NoResponse, error |-> [url |-> "", status |-> 0], io |-> {},
   subs |-> << >>, existedInMemory |-> FALSE, overlapped |-> FALSE,
   crossed |-> FALSE]

NoTasks == [t \in 1..MaxTasks |-> NoTask]

\* One request on its way through fetch, put and #save: via is the fetch
\* function it was fetched through, text the JSON text handed to the write.
Sub(req, given, via, pc) ==
  [req |-> req, given |-> given, via |-> via, pc |-> pc,
   error |-> [url |-> "", status |-> 0], text |-> Garbage]

\* A call whose promise is pending, or whose requests are still on their way
\* (Promise.all rejects at the first failure and lets the others run on).
InFlight(task) ==
  \/ task.pc # "done"
  \/ \E i \in 1..Len(task.subs) : task.subs[i].pc \notin {"done", "failed"}

\* What the calls in flight never change.
settledVars ==
  <<env, imported, runs, faults, proc, kvVars, globalCaches,
    cachesPolyfillInitialized, last>>

\* The script starts a call.  The call takes the first place that was never
\* taken, and the place of a call that has come to its end when there is
\* none.
Started(t, task) ==
  /\ globalCaches = "polyfill"
  /\ calls < MaxCalls
  /\ ~InFlight(tasks[t])
  /\ \A u \in 1..MaxTasks :
       tasks[u].op = "none" => (tasks[t].op = "none" /\ t <= u)
  /\ calls' = calls + 1
  /\ tasks' = [tasks EXCEPT ![t] =
       [task EXCEPT !.status = "pending",
                    !.overlapped = \E u \in 1..MaxTasks :
                                     u # t /\ InFlight(tasks[u])]]
  /\ UNCHANGED <<settledVars, fs, dirs, cs, handles, globalFetch>>

\* A start of put, match, add and addAll whose #ensureLoaded enters #load
\* whether or not the handle is loaded.
CallOnAlwaysLoads(t, op, h, req, given, batch) ==
  /\ h \in 1..Len(handles)
  /\ Started(t, [NoTask EXCEPT
       !.op = op, !.h = h, !.req = req, !.given = given, !.batch = batch,
       !.pc = "exists",
       !.io = {"exists"}])

\* The start of put, match, add and addAll: the call enters #ensureLoaded,
\* which on an unloaded handle enters #load and stands at its await of
\* exists.
CallOn(t, op, h, req, given, batch) ==
  /\ h \in 1..Len(handles)
  /\ Started(t, [NoTask EXCEPT
       !.op = op, !.h = h, !.req = req, !.given = given, !.batch = batch,
       !.pc = IF handles[h].loaded THEN "loaded" ELSE "exists",
       !.io = IF handles[h].loaded THEN {} ELSE {"exists"}])

\* The start of CacheStorageImpl.open and delete: the call stands at its
\* await of #ensureInitialized.
CallOnStorage(t, op, name) ==
  Started(t, [NoTask EXCEPT !.op = op, !.name = name, !.pc = "init"])

Rejected(task, url, status) ==
  [task EXCEPT !.pc = "done", !.status = "throw",
               !.error = [url |-> url, status |-> status]]

\* #load after its await of exists: it calls readTextFile on a file that
\* exists, and otherwise sets #data to an empty document and #loaded.
loadAfterExists(t) ==
  LET task == tasks[t]
      c == handles[task.h]
  IN
  /\ task.pc = "exists"
  /\ IF exists(fs, c.storagePath) THEN
       /\ tasks' = [tasks EXCEPT ![t].pc = "read",
                                 ![t].io = task.io \cup {"read"}]
       /\ UNCHANGED handles
     ELSE
       /\ handles' = [handles EXCEPT ![task.h].data = EmptyCacheData,
                                     ![task.h].loaded = TRUE]
       /\ tasks' = [tasks EXCEPT ![t].pc = "loaded"]
  /\ UNCHANGED <<settledVars, calls, fs, dirs, cs, globalFetch>>

\* #load after its await of readTextFile: it parses the text into #data and
\* sets #loaded; a file that is gone by now or does not parse makes it throw.
loadAfterRead(t) ==
  LET task == tasks[t]
      c == handles[task.h]
  IN
  /\ task.pc = "read"
  /\ IF ~FileExists(fs, c.storagePath) \/ LoadThrows(fs, c.storagePath) THEN
       /\ tasks' = [tasks EXCEPT ![t] = Rejected(task, "", 0)]
       /\ UNCHANGED handles
     ELSE
       /\ handles' = [handles EXCEPT
                        ![task.h].data = LoadedData(fs, c.storagePath),
                        ![task.h].loaded = TRUE]
       /\ tasks' = [tasks EXCEPT ![t].pc = "loaded"]
  /\ UNCHANGED <<settledVars, calls, fs, dirs, cs, globalFetch>>

\* match after its await of #ensureLoaded
matchAfterEnsureLoaded(t) ==
  LET task == tasks[t]
      out == MatchOutcome(handles[task.h].data, task.req)
  IN
  /\ task.op = "match" /\ task.pc = "loaded"
  /\ tasks' = [tasks EXCEPT ![t].pc = "done", ![t].status = out.status,
                            ![t].ret = out.ret, ![t].resp = out.resp]
  /\ UNCHANGED <<settledVars, calls, fs, dirs, cs, handles, globalFetch>>

\* put after its await of #ensureLoaded, whether the script called it or a
\* request's closure of addAll did: up to its await of arrayBuffer.
putAfterEnsureLoaded(t, i) ==
  LET task == tasks[t] IN
  /\ \/ /\ task.op = "put" /\ task.pc = "loaded" /\ i = 1
        /\ tasks' = [tasks EXCEPT
             ![t].pc = "all",
             ![t].subs = << Sub(NewRequest(task.req), task.given, "",
                                "body") >>]
     \/ /\ i \in 1..Len(task.subs)
        /\ task.subs[i].pc = "putLoaded"
        /\ tasks' = [tasks EXCEPT ![t].subs[i].pc = "body"]
  /\ UNCHANGED <<settledVars, calls, fs, dirs, cs, handles, globalFetch>>

\* add after its await of #ensureLoaded: it calls addAll([request]), which
\* stands at its own await of #ensureLoaded.
addAfterEnsureLoaded(t) ==
  /\ tasks[t].op = "add" /\ tasks[t].pc = "loaded"
  /\ tasks' = [tasks EXCEPT ![t].pc = "addAll"]
  /\ UNCHANGED <<settledVars, calls, fs, dirs, cs, handles, globalFetch>>

\* What the identifier fetch denotes where addAll calls it: the global
\* fetch of the moment of the call.
fetch == globalFetch

\* addAll after its await of #ensureLoaded: requests.map starts every
\* request's closure, each of which runs up to its await of fetch; addAll
\* then stands at its await of Promise.all.
addAllAfterEnsureLoaded(t) ==
  LET task == tasks[t] IN
  /\ \/ task.op = "addAll" /\ task.pc = "loaded"
     \/ task.op = "add" /\ task.pc = "addAll"
  /\ tasks' = [tasks EXCEPT
       ![t].pc = "all",
       ![t].subs = [i \in 1..Len(task.batch) |->
                      Sub(NewRequest(task.batch[i]), NoResponse, fetch,
                          "fetch")]]
  /\ UNCHANGED <<settledVars, calls, fs, dirs, cs, handles, globalFetch>>

\* A request's closure that puts whatever response it gets.
afterFetchIgnoresStatus(t, i, response) ==
  /\ i \in 1..Len(tasks[t].subs)
  /\ tasks[t].subs[i].pc = "fetch"
  /\ tasks' = [tasks EXCEPT ![t].subs[i].pc = "putLoaded",
                            ![t].subs[i].given = response]
  /\ UNCHANGED <<settledVars, calls, fs, dirs, cs, handles, globalFetch>>

\* A request's closure after its await of fetch: a response that is not ok
\* makes it throw, which rejects Promise.all unless it is settled already;
\* with an ok response it calls put, which stands at its await of
\* #ensureLoaded.
afterFetch(t, i, response) ==
  LET task == tasks[t] IN
  /\ i \in 1..Len(task.subs)
  /\ task.subs[i].pc = "fetch"
  /\ IF response.status \in 200..299 THEN
       tasks' = [tasks EXCEPT ![t].subs[i].pc = "putLoaded",
                              ![t].subs[i].given = response]
     ELSE
       LET err == [url |-> task.subs[i].req.url, status |-> response.status]
           failed == [task EXCEPT !.subs[i].pc = "failed",
                                  !.subs[i].given = response,
                                  !.subs[i].error = err]
       IN tasks' = [tasks EXCEPT ![t] =
                      IF task.status = "pending"
                      THEN Rejected(failed, err.url, err.status)
                      ELSE failed]
  /\ UNCHANGED <<settledVars, calls, fs, dirs, cs, handles, globalFetch>>

\* put after its await of arrayBuffer: it stores the entry in #data and
\* enters #save, which stands at its await of ensureDir.
putAfterArrayBuffer(t, i) ==
  LET task == tasks[t]
      sub == task.subs[i]
  IN
  /\ i \in 1..Len(task.subs)
  /\ sub.pc = "body"
  /\ handles' = [handles EXCEPT ![task.h].data =
                   WithEntry(handles[task.h].data, getRequestKey(sub.req),
                             StoredCacheEntry(sub.req, sub.given))]
  /\ tasks' = [tasks EXCEPT ![t].subs[i].pc = "mkdir",
                            ![t].io = task.io \cup {"mkdir"}]
  /\ UNCHANGED <<settledVars, calls, fs, dirs, cs, globalFetch>>

\* #save after its await of ensureDir: it calls writeTextFile with the JSON
\* text of #data as it is now.
saveAfterEnsureDir(t, i) ==
  LET task == tasks[t] IN
  /\ i \in 1..Len(task.subs)
  /\ task.subs[i].pc = "mkdir"
  /\ dirs' = SaveDirs(dirs, handles[task.h])
  /\ tasks' = [tasks EXCEPT
       ![t].subs[i].pc = "write",
       ![t].subs[i].text = JSONstringify(handles[task.h].data),
       ![t].io = task.io \cup {"write"}]
  /\ UNCHANGED <<settledVars, calls, fs, cs, handles, globalFetch>>

\* The promise of a call that awaits its puts (put itself, or addAll through
\* Promise.all): it resolves when the last of them has returned.
Resolved(task) ==
  IF task.status = "pending"
     /\ \A j \in 1..Len(task.subs) : task.subs[j].pc = "done"
  THEN [task EXCEPT !.pc = "done", !.status = "ok"]
  ELSE task

\* #save after its await of writeTextFile: put returns.
saveAfterWrite(t, i) ==
  LET task == tasks[t] IN
  /\ i \in 1..Len(task.subs)
  /\ task.subs[i].pc = "write"
  /\ fs' = WriteFile(fs, handles[task.h].storagePath, task.subs[i].text)
  /\ tasks' = [tasks EXCEPT ![t] =
                 Resolved([task EXCEPT !.subs[i].pc = "done"])]
  /\ UNCHANGED <<settledVars, calls, dirs, cs, handles, globalFetch>>

\* A setupCachesPolyfill that skips its check of
\* __cachesPolyfillInitialized.
setupCachesPolyfillCalledAnyway(t) ==
  Started(t, [NoTask EXCEPT !.op = "setupCachesPolyfill", !.pc = "digest"])

\* The script calls setupCachesPolyfill: in a standalone process whose
\* __cachesPolyfillInitialized is set it returns at once; otherwise it
\* constructs a CacheStorageImpl, whose #initialize runs up to its await of
\* #createStorageId, and stands at its await of ensureInitialized.
setupCachesPolyfillCalled(t) ==
  Started(t, [NoTask EXCEPT
    !.op = "setupCachesPolyfill",
    !.pc = IF ~proc.standalone \/ cachesPolyfillInitialized
           THEN "return" ELSE "digest"])

\* initWork after its await of #createStorageId: it sets #storageRoot and
\* stands at its await of ensureDir.
initializeAfterCreateStorageId(t) ==
  /\ tasks[t].pc = "digest"
  /\ tasks' = [tasks EXCEPT ![t].pc = "ensureDir"]
  /\ UNCHANGED <<settledVars, calls, fs, dirs, cs, handles, globalFetch>>

\* setupCachesPolyfill at its end.  After the await of ensureInitialized
\* (ensureDir has created the root, #initialized is set) it defines
\* globalThis.caches as its instance and sets __cachesPolyfillInitialized;
\* the module's own call (op "import") ends the module's evaluation.  A call
\* that returned at once settles its promise.
setupAfterEnsureInitialized(t) ==
  LET task == tasks[t]
      root == StorageRoot(cacheDir(env), proc.base \o CachesModule)
  IN
  /\ task.pc \in {"ensureDir", "return"}
  /\ IF task.pc = "ensureDir" THEN
       /\ dirs' = ensureDir(dirs, root)
       /\ cs' = [initialized |-> TRUE, storageRoot |-> root,
                 caches |-> << >>]
       /\ globalCaches' = "polyfill"
       /\ cachesPolyfillInitialized' = TRUE
     ELSE UNCHANGED <<dirs, cs, globalCaches, cachesPolyfillInitialized>>
  /\ tasks' = [tasks EXCEPT ![t] =
                 IF task.op = "import" THEN NoTask
                 ELSE [task EXCEPT !.pc = "done", !.status = "ok"]]
  /\ UNCHANGED <<env, imported, runs, faults, proc, kvVars, last, calls, fs,
                 handles, globalFetch>>

\* The script imports the package's fetch patch, which replaces
\* globalThis.fetch.  Imports are evaluated before the script's first call.
patchFetch ==
  /\ proc # NoProc
  /\ calls = 0
  /\ globalFetch = "native"
  /\ globalFetch' = "patched"
  /\ UNCHANGED <<settledVars, calls, fs, dirs, cs, handles, tasks>>

\* An open that creates a CacheImpl whatever #caches holds.
openAlwaysCreates(t) ==
  LET task == tasks[t] IN
  /\ task.op = "open" /\ task.pc = "init"
  /\ Len(handles) < MaxAsyncHandles
  /\ handles' = Append(handles,
                       CacheImpl(task.name,
                                 CachePath(cs.storageRoot, task.name)))
  /\ cs' = [cs EXCEPT !.caches =
              [n \in (DOMAIN cs.caches) \cup {task.name} |->
                 IF n = task.name THEN Len(handles) + 1 ELSE cs.caches[n]]]
  /\ tasks' = [tasks EXCEPT ![t].pc = "done", ![t].status = "ok",
                            ![t].ret = "new", ![t].h = Len(handles) + 1]
  /\ UNCHANGED <<settledVars, calls, fs, dirs, globalFetch>>

\* open after its await of #ensureInitialized: the handle #caches holds for
\* the name, or a new CacheImpl that it enters into #caches.
openAfterEnsureInitialized(t) ==
  LET task == tasks[t] IN
  /\ task.op = "open" /\ task.pc = "init"
  /\ IF task.name \in DOMAIN cs.caches THEN
       /\ tasks' = [tasks EXCEPT ![t].pc = "done", ![t].status = "ok",
                                 ![t].ret = "existing",
                                 ![t].h = cs.caches[task.name]]
       /\ UNCHANGED <<cs, handles>>
     ELSE
       /\ Len(handles) < MaxAsyncHandles
       /\ handles' = Append(handles,
                            CacheImpl(task.name,
                                      CachePath(cs.storageRoot, task.name)))
       /\ cs' = [cs EXCEPT !.caches =
                   [n \in (DOMAIN cs.caches) \cup {task.name} |->
                      IF n = task.name THEN Len(handles) + 1
                      ELSE cs.caches[n]]]
       /\ tasks' = [tasks EXCEPT ![t].pc = "done", ![t].status = "ok",
                                 ![t].ret = "new", ![t].h = Len(handles) + 1]
  /\ UNCHANGED <<settledVars, calls, fs, dirs, globalFetch>>

\* delete after its await of #ensureInitialized: it removes the name from
\* #caches and stands at its await of exists.
storageDeleteAfterEnsureInitialized(t) ==
  LET task == tasks[t] IN
  /\ task.op = "caches.delete" /\ task.pc = "init"
  /\ cs' = [cs EXCEPT !.caches =
              [n \in (DOMAIN cs.caches) \ {task.name} |-> cs.caches[n]]]
  /\ tasks' = [u \in 1..MaxTasks |->
       IF u = t THEN
         [task EXCEPT !.pc = "stat", !.io = {"exists"},
                      !.existedInMemory = task.name \in DOMAIN cs.caches]
       ELSE IF tasks[u].op = "open" /\ tasks[u].name = task.name THEN
         [tasks[u] EXCEPT !.crossed = TRUE]
       ELSE tasks[u]]
  /\ UNCHANGED <<settledVars, calls, fs, dirs, handles, globalFetch>>

\* delete after its await of exists: it calls Deno.remove on a file that
\* exists, and otherwise returns existedInMemory.
storageDeleteAfterExists(t) ==
  LET task == tasks[t] IN
  /\ task.op = "caches.delete" /\ task.pc = "stat"
  /\ IF exists(fs, CachePath(cs.storageRoot, task.name)) THEN
       tasks' = [tasks EXCEPT ![t].pc = "remove",
                              ![t].io = task.io \cup {"remove"}]
     ELSE
       tasks' = [tasks EXCEPT
         ![t].pc = "done", ![t].status = "ok",
         ![t].ret = IF task.existedInMemory THEN "true" ELSE "false"]
  /\ UNCHANGED <<settledVars, calls, fs, dirs, cs, handles, globalFetch>>

\* delete after its await of Deno.remove (a NotFound error of which it
\* ignores): existedOnDisk is true, so it returns true.
storageDeleteAfterRemove(t) ==
  LET task == tasks[t]
      storagePath == CachePath(cs.storageRoot, task.name)
  IN
  /\ task.op = "caches.delete" /\ task.pc = "remove"
  /\ fs' = IF FileExists(fs, storagePath) THEN RemoveFile(fs, storagePath)
           ELSE fs
  /\ tasks' = [tasks EXCEPT ![t].pc = "done", ![t].status = "ok",
                            ![t].ret = "true"]
  /\ UNCHANGED <<settledVars, calls, dirs, cs, handles, globalFetch>>

(***************************************************************************)
(* Processes.                                                              *)
(***************************************************************************)
Start(pr) ==
  /\ proc = NoProc
  /\ pr.imports = imported
  /\ runs < MaxRuns
  /\ proc' = pr
  /\ runs' = runs + 1
  /\ last' = NoLast
  /\ UNCHANGED <<env, imported, asyncVars, fs, dirs, faults, kvVars, cacheVars>>

Exit ==
  /\ proc # NoProc
  /\ proc' = NoProc
  /\ globalLocalStorage' = "native"
  /\ ls' = NoStorage
  /\ peer' = NoStorage
  /\ globalCaches' = "native"
  /\ cachesPolyfillInitialized' = FALSE
  /\ cs' = NoCacheStorage
  /\ handles' = << >>
  /\ globalFetch' = "native"
  /\ tasks' = NoTasks
  /\ calls' = 0
  /\ last' = NoLast
  /\ UNCHANGED <<env, imported, fs, dirs, runs, faults>>

\* The files the machine holds before the first process starts: none, or
\* one store file that a crash left unparsable.
HomeCacheDir == "/home/u/.cache"

InitialFiles(polyfill) ==
  { << >>,
    [q \in {IF polyfill = "localStorage"
            THEN LocalStoragePath(HomeCacheDir, App1Base \o LocalStorageModule)
            ELSE CachePath(StorageRoot(HomeCacheDir, App1Base \o CachesModule),
                           PlainName)}
       |-> Garbage] }

Init ==
  /\ env \in Environments
  /\ imported \in {"localStorage", "caches"}
  /\ fs \in InitialFiles(imported)
  /\ dirs = UNION { ensureDir({}, dirname(q)) : q \in DOMAIN fs }
  /\ runs = 0
  /\ faults = 0
  /\ proc = NoProc
  /\ globalLocalStorage = "native"
  /\ ls = NoStorage
  /\ peer = NoStorage
  /\ globalCaches = "native"
  /\ cachesPolyfillInitialized = FALSE
  /\ cs = NoCacheStorage
  /\ handles = << >>
  /\ globalFetch = "native"
  /\ tasks = NoTasks
  /\ calls = 0
  /\ last = NoLast

Next ==
  \/ \E pr \in Profiles : Start(pr)
  \/ Exit
  \/ setupLocalStorage
  \/ \E k \in KVKeys, v \in KVValues : setItem(k, v)
  \/ \E k \in KVKeys : removeItem(k)
  \/ clear
  \/ setupCachesPolyfill
  \/ \E name \in CacheNames : open(name)
  \/ \E name \in CacheNames : has(name)
  \/ \E name \in CacheNames : storageDelete(name)
  \/ \E h \in 1..MaxHandles, input \in PutInputs, r \in PutResponses :
       put(h, input, r)
  \/ \E h \in 1..MaxHandles, input \in QueryInputs : match(h, input)
  \/ \E h \in 1..MaxHandles, input \in QueryInputs : cacheDelete(h, input)

Spec == Init /\ [][Next]_vars

(***************************************************************************)
(* A script with calls in flight: one standalone executable that has       *)
(* imported the caches polyfill (the import awaits setupCachesPolyfill),   *)
(* on a machine where an earlier run of it may have left a cache file.     *)
(***************************************************************************)
\* The requests of the script, and the response the network may give
\* besides Response200.
UrlA == RequestObject("https://x/a")
UrlB == RequestObject("https://x/b")
Response404 ==
  ResponseOf(404, "Not Found", << <<"Content-Type", "text/plain">> >>, <<110>>)

\* The file an earlier run left after put(UrlA, Response200) on PlainName.
LeftFile ==
  JSONstringify(WithEntry(EmptyCacheData, getRequestKey(UrlA),
                          StoredCacheEntry(UrlA, Response200)))

ConcurrentInit ==
  LET root == StorageRoot(HomeCacheDir, App1Base \o CachesModule) IN
  /\ env = [os |-> "linux", XDG_CACHE_HOME |-> "", HOME |-> "/home/u",
            LOCALAPPDATA |-> "", APPDATA |-> ""]
  /\ imported = "caches"
  /\ runs = 1
  /\ faults = 0
  /\ proc = Profile(App1Base, TRUE, "throws", "caches", FALSE)
  /\ fs \in { << >>, [q \in {CachePath(root, PlainName)} |-> LeftFile] }
  /\ dirs = UNION { ensureDir({}, dirname(q)) : q \in DOMAIN fs }
  /\ globalLocalStorage = "native"
  /\ ls = NoStorage
  /\ peer = NoStorage
  /\ globalCaches = "native"
  /\ cachesPolyfillInitialized = FALSE
  /\ cs = NoCacheStorage
  /\ handles = << >>
  /\ globalFetch = "native"
  /\ tasks = [NoTasks EXCEPT ![1] =
                [NoTask EXCEPT !.op = "import", !.pc = "digest",
                               !.status = "pending"]]
  /\ calls = 0
  /\ last = NoLast

ConcurrentNext ==
  \/ patchFetch
  \/ \E t \in 1..MaxTasks :
       \/ setupCachesPolyfillCalled(t)
       \/ initializeAfterCreateStorageId(t)
       \/ setupAfterEnsureInitialized(t)
       \/ CallOnStorage(t, "open", PlainName)
       \/ CallOnStorage(t, "caches.delete", PlainName)
       \/ openAfterEnsureInitialized(t)
       \/ storageDeleteAfterEnsureInitialized(t)
       \/ storageDeleteAfterExists(t)
       \/ storageDeleteAfterRemove(t)
       \/ \E h \in 1..MaxAsyncHandles :
            \/ CallOn(t, "put", h, UrlB, Response200, << >>)
            \/ CallOn(t, "match", h, UrlA, NoResponse, << >>)
            \/ CallOn(t, "add", h, NoRequest, NoResponse, << UrlA >>)
            \/ CallOn(t, "addAll", h, NoRequest, NoResponse, << UrlA, UrlB >>)
       \/ loadAfterExists(t)
       \/ loadAfterRead(t)
       \/ matchAfterEnsureLoaded(t)
       \/ addAfterEnsureLoaded(t)
       \/ addAllAfterEnsureLoaded(t)
       \/ \E i \in 1..2 :
            \/ \E response \in {Response200, Response404} :
                 afterFetch(t, i, response)
            \/ putAfterEnsureLoaded(t, i)
            \/ putAfterArrayBuffer(t, i)
            \/ saveAfterEnsureDir(t, i)
            \/ saveAfterWrite(t, i)

ConcurrentSpec == ConcurrentInit /\ [][ConcurrentNext]_vars

(***************************************************************************)
(* cacheDir on its own: a process on any operating system, with each of    *)
(* the variables cacheDir reads unset or set, calls cacheDir.              *)
(***************************************************************************)
CacheDirInit ==
  /\ env \in [os : {"linux", "darwin", "windows", "freebsd"},
               XDG_CACHE_HOME : {"", "/xdg"},
               HOME : {"", "/home/u"},
               LOCALAPPDATA : {"", "C:/Users/u/AppData/Local"},
               APPDATA : {"", "C:/Users/u/AppData/Roaming"}]
  /\ imported = "localStorage"
  /\ fs = << >>
  /\ dirs = {}
  /\ runs = 0
  /\ faults = 0
  /\ proc = NoProc
  /\ globalLocalStorage = "native"
  /\ ls = NoStorage
  /\ peer = NoStorage
  /\ globalCaches = "native"
  /\ cachesPolyfillInitialized = FALSE
  /\ cs = NoCacheStorage
  /\ handles = << >>
  /\ globalFetch = "native"
  /\ tasks = NoTasks
  /\ calls = 0
  /\ last = NoLast

\* const cacheDirPath = cacheDir()
cacheDirCalled ==
  /\ last' = Call("cacheDir", "ok", "", "", cacheDir(env), FALSE, {})
  /\ UNCHANGED <<env, imported, asyncVars, fs, dirs, runs, faults, proc,
                 kvVars, cacheVars>>

CacheDirSpec == CacheDirInit /\ [][cacheDirCalled]_vars

(***************************************************************************)
(* Two instances over one file.  Two processes of one executable run at    *)
(* the same time: each has its own LocalStorage instance, or its own       *)
(* CacheImpl, over the same backing file.  ls is the instance of the       *)
(* process that runs now and peer the other one's; the two CacheImpl       *)
(* objects are handles 1 and 2.  The calls of one process are still issued *)
(* one at a time.                                                          *)
(***************************************************************************)
\* The operating system runs the other process.
switch ==
  /\ globalLocalStorage = "shim"
  /\ ls' = peer
  /\ peer' = ls
  /\ last' = NoLast
  /\ UNCHANGED <<env, imported, asyncVars, fs, dirs, runs, faults, proc,
                 globalLocalStorage, cacheVars>>

\* Both processes have run their setup on a machine without files: the
\* key-value instances hold the empty document their setups wrote and
\* read, the cache handles are opened and not loaded.
SharedFileInit ==
  LET root == StorageRoot(HomeCacheDir, App1Base \o CachesModule)
      path == LocalStoragePath(HomeCacheDir, App1Base \o LocalStorageModule)
      store == [storagePath |-> path, storageData |-> EmptyObj]
      c == CacheImpl(PlainName, CachePath(root, PlainName))
  IN
  /\ env = [os |-> "linux", XDG_CACHE_HOME |-> "", HOME |-> "/home/u",
            LOCALAPPDATA |-> "", APPDATA |-> ""]
  /\ imported \in {"localStorage", "caches"}
  /\ runs = 2
  /\ faults = 0
  /\ proc = Profile(App1Base, TRUE, "throws", imported, FALSE)
  /\ fs = IF imported = "localStorage"
          THEN [q \in {path} |-> JSONstringify(EmptyObj)] ELSE << >>
  /\ dirs = IF imported = "localStorage" THEN ensureDir({}, dirname(path))
            ELSE ensureDir({}, root)
  /\ globalLocalStorage
       = IF imported = "localStorage" THEN "shim" ELSE "native"
  /\ ls = IF imported = "localStorage" THEN store ELSE NoStorage
  /\ peer = ls
  /\ globalCaches = IF imported = "caches" THEN "polyfill" ELSE "native"
  /\ cachesPolyfillInitialized = (imported = "caches")
  /\ cs = IF imported = "caches"
          THEN [initialized |-> TRUE, storageRoot |-> root,
                caches |-> [n \in {PlainName} |-> 1]]
          ELSE NoCacheStorage
  /\ handles = IF imported = "caches" THEN <<c, c>> ELSE << >>
  /\ globalFetch = "native"
  /\ tasks = NoTasks
  /\ calls = 0
  /\ last = NoLast

SharedFileSpec ==
  SharedFileInit /\
  [][ \/ switch
      \/ \E k \in KVKeys, v \in KVValues : setItem(k, v)
      \/ \E k \in KVKeys : removeItem(k)
      \/ clear
      \/ \E h \in 1..2 :
           \/ put(h, UrlA, Response200)
           \/ put(h, UrlB, Response200)
           \/ match(h, UrlA)
           \/ cacheDelete(h, UrlA) ]_vars

(***************************************************************************)
(* Properties.                                                             *)
(***************************************************************************)
\* A new LocalStorage set up on the file at path.
FreshStore(f, path) ==
  [storagePath |-> path, storageData |-> LoadStorageData(f, path)]

\* The files of the namespace of the program at base URL b: its key-value
\* file and the files under its cache directory.
NamespaceFiles(f, b) ==
  LET kv == LocalStoragePath(cacheDir(env), b \o LocalStorageModule)
      root == StorageRoot(cacheDir(env), b \o CachesModule)
      mine == { q \in DOMAIN f : q = kv \/ IsPrefix(root, q) }
  IN [q \in mine |-> f[q]]

\* C1: after a successful setItem, removeItem or clear, and after a
\* successful put or a delete that removed an entry, a new instance that
\* loads the same file holds exactly the document the calling instance holds
\* in memory.
C1_MutationsAreDurable ==
  /\ (last.op \in {"setItem", "removeItem", "clear"} /\ last.status = "ok")
       => FreshStore(fs, ls.storagePath).storageData = ls.storageData
  /\ (/\ last.status = "ok"
      /\ last.op = "put" \/ (last.op = "delete" /\ last.ret = "true"))
       => LET c == handles[last.h] IN
          /\ ~LoadThrows(fs, c.storagePath)
          /\ LoadedData(fs, c.storagePath) = c.data

\* A second process loads the file the first one wrote, finds the entry in
\* it and deletes it.
C1_Witness ==
  /\ runs = 2
  /\ last.op = "delete" /\ last.status = "ok" /\ last.ret = "true"
  /\ "read" \in last.io

\* C2: after a successful setItem(k, v), getItem(k) returns v, on the same
\* store and on a store freshly set up from the same file.
C2_SetItemThenGetItem ==
  (last.op = "setItem" /\ last.status = "ok") =>
    /\ getItem(ls, last.key) = [kind |-> "string", value |-> last.val]
    /\ getItem(FreshStore(fs, ls.storagePath), last.key)
         = [kind |-> "string", value |-> last.val]

\* C3: after a successful put(request, response), match with a Request for
\* the same URL returns a response with the status, status text, headers and
\* body bytes of the response that was put; match for a URL without a stored
\* entry returns no result.
C3_MatchReturnsWhatWasPut ==
  /\ (last.op = "put" /\ last.status = "ok") =>
       LET out == MatchOutcome(handles[last.h].data,
                               RequestObject(last.req.url)) IN
       /\ out.status = "ok"
       /\ out.ret = "response"
       /\ SameResponse(out.resp, last.given)
  /\ \A h \in 1..Len(handles), q \in QueryInputs :
       (/\ handles[h].loaded
        /\ ~HasOwn(EntriesOf(handles[h].data), URLhref(q.url)))
         => MatchOutcome(handles[h].data, q).ret = "undefined"

\* C4: a delete that returns does so with true exactly when the document
\* held an entry for the request's URL at the time of the call; after it
\* returned true, match on the same request returns no result.
C4_DeleteReportsTheEntry ==
  [][ (last'.op = "delete" /\ last'.status = "ok") =>
        LET before == EnsureLoaded(handles[last'.h], "none").data
            after == handles'[last'.h].data
        IN
        /\ last'.ret = "true"
             <=> HasOwn(EntriesOf(before), URLhref(last'.req.url))
        /\ last'.ret = "true"
             => MatchOutcome(after, last'.req).ret = "undefined" ]_vars

\* C5: after a successful put on the handle of a cache, has(name) is true;
\* after CacheStorage.delete(name) returned, has(name) is false, the name has
\* no open handle, and a handle newly opened for it loads an empty document
\* and matches nothing.
C5_HasFollowsPutAndDelete ==
  /\ (last.op = "put" /\ last.status = "ok")
       => HasResult(fs, cs.storageRoot, handles[last.h].cacheName)
  /\ (last.op = "caches.delete" /\ last.status = "ok") =>
       LET path == CachePath(cs.storageRoot, last.key) IN
       /\ ~HasResult(fs, cs.storageRoot, last.key)
       /\ last.key \notin DOMAIN cs.caches
       /\ ~LoadThrows(fs, path)
       /\ \A q \in QueryInputs :
            MatchOutcome(LoadedData(fs, path), q).ret = "undefined"

\* CacheStorage.delete returned true for a cache whose handle holds an entry
\* that had been put.
C5_Witness ==
  /\ last.op = "caches.delete" /\ last.status = "ok" /\ last.ret = "true"
  /\ Len(handles) = 1
  /\ handles[1].cacheName = last.key
  /\ HasOwn(EntriesOf(handles[1].data), "https://x/a")

\* C6: no call made by a process changes a file of the namespace of a
\* program with another namespace id, so no read of that program's stores
\* changes its result.
C6_NamespacesAreIsolated ==
  [][ \A b \in {App1Base, App2Base} :
        (proc.base # b /\ proc' = proc)
          => NamespaceFiles(fs', b) = NamespaceFiles(fs, b) ]_vars

\* C7: after clear the length is 0, and a clear that follows a clear leaves
\* the document as it was.
C7_ClearIsIdempotent ==
  [][ last'.op = "clear" =>
        /\ length(ls') = 0
        /\ last.op = "clear" => ls'.storageData = ls.storageData ]_vars

\* A clear that succeeded: the store and its file are empty.
C7_Witness ==
  /\ last.op = "clear" /\ last.status = "ok"
  /\ length(ls) = 0
  /\ fs[ls.storagePath] = JSONstringify(EmptyObj)

\* C8: in a process that is not a standalone executable, setupLocalStorage
\* and setupCachesPolyfill return without a file system call and leave the
\* global objects as they were.
C8_SetupIsInertOutsideStandalone ==
  (~proc.standalone /\ last.op \in {"setupLocalStorage", "setupCachesPolyfill"})
    => /\ last.status = "ok"
       /\ last.io = {}
       /\ globalLocalStorage = "native"
       /\ globalCaches = "native"

\* C9: in a standalone executable for which cacheDir returns no result, a
\* call of setupLocalStorage or setupCachesPolyfill throws, installs no
\* global object and changes no file.
C9_SetupFailsWithoutCacheDir ==
  [][ (/\ proc.standalone
       /\ cacheDir(env) = Null
       /\ last'.op \in {"setupLocalStorage", "setupCachesPolyfill"})
        => /\ last'.status = "throw"
           /\ globalLocalStorage' = "native"
           /\ globalCaches' = "native"
           /\ fs' = fs ]_vars

\* setupCachesPolyfill threw in a standalone executable without a cache
\* directory.
C9_Witness ==
  /\ proc.standalone
  /\ cacheDir(env) = Null
  /\ last.op = "setupCachesPolyfill" /\ last.status = "throw"
  /\ globalCaches = "native"

\* C10: when the backing file exists and does not parse, and no file system
\* call fails, the load succeeds with a warning and an empty document: the
\* key-value setup returns with an empty store, and the first operation on
\* a cache handle returns.
C10_UnparsableFileLoadsEmpty ==
  [][ /\ LET path == LocalStoragePath(cacheDir(env),
                                      proc.base \o LocalStorageModule) IN
         (/\ last'.op = "setupLocalStorage"
          /\ faults' = faults
          /\ isStandaloneDenoExe
          /\ cacheDir(env) # Null
          /\ FileExists(fs, path) /\ ~Parses(fs[path]))
           => /\ last'.status = "ok"
              /\ last'.warned
              /\ ls'.storageData = EmptyObj
      /\ (/\ last'.op \in {"put", "match", "delete"}
          /\ faults' = faults
          /\ ~handles[last'.h].loaded
          /\ LoadThrows(fs, handles[last'.h].storagePath))
           => /\ last'.status = "ok"
              /\ last'.warned
              /\ handles'[last'.h].loaded ]_vars

\* C11: a call during which a file system call fails (for a reason other
\* than a missing file) throws: setup, loading and the mutating operations
\* never return normally from such a call.
C11_IoFailuresPropagate ==
  [][ faults' > faults => last'.status = "throw" ]_vars

\* C12: while a call's read of a handle's backing file is in flight, no
\* other call on that handle starts a second read of the file: the later
\* caller waits for the load in flight, so the file is read once.
C12_LoadInFlightIsShared ==
  [][ \A t, u \in 1..MaxTasks :
        (/\ t # u
         /\ tasks[u].h = tasks[t].h
         /\ tasks[u].pc = "read"
         /\ tasks[t].pc = "exists")
          => tasks'[t].pc # "read" ]_vars

\* C13: two open calls with the same name that have returned, one after the
\* other or overlapping, with no CacheStorage.delete of the name since either
\* started, returned the same CacheImpl.
C13_OpenReturnsSameHandle ==
  \A t, u \in 1..MaxTasks :
    (/\ tasks[t].op = "open" /\ tasks[u].op = "open"
     /\ tasks[t].pc = "done" /\ tasks[u].pc = "done"
     /\ tasks[t].name = tasks[u].name
     /\ ~tasks[t].crossed /\ ~tasks[u].crossed)
      => tasks[t].h = tasks[u].h

\* Two open calls of one name, the second started while the first was in
\* flight, have returned the same handle.
C13_Witness ==
  /\ tasks[1].op = "open" /\ tasks[1].pc = "done" /\ ~tasks[1].crossed
  /\ tasks[2].op = "open" /\ tasks[2].pc = "done" /\ ~tasks[2].crossed
  /\ tasks[2].overlapped
  /\ tasks[1].name = tasks[2].name
  /\ tasks[1].h = tasks[2].h

\* C14: a loaded cache holds at most one record per URL, each under the URL
\* of its request; after a successful put the record of the request's URL is
\* the one just put, whatever the method and headers of the request that put
\* the record it replaces, and match for that URL returns the response just
\* put.
C14_OneRecordPerUrl ==
  /\ \A h \in 1..Len(handles) :
       LET entries == EntriesOf(handles[h].data) IN
       handles[h].loaded =>
         \A i, j \in 1..Len(entries) :
           /\ entries[i][1] = entries[i][2].request.url
           /\ entries[i][1] = entries[j][1] => i = j
  /\ (last.op = "put" /\ last.status = "ok") =>
       LET req == NewRequest(last.req)
           entries == EntriesOf(handles[last.h].data)
           out == MatchOutcome(handles[last.h].data, RequestObject(req.url))
       IN
       /\ HasOwn(entries, req.url)
       /\ entries[OwnIndex(entries, req.url)][2]
            = StoredCacheEntry(req, last.given)
       /\ out.ret = "response"
       /\ SameResponse(out.resp, last.given)

C16_AddUsesOriginalFetch ==
  \A t \in 1..MaxTasks :
    tasks[t].op \in {"add", "addAll"} =>
      \A i \in 1..Len(tasks[t].subs) : tasks[t].subs[i].via = "native"

C18_HasChangesNothing ==
  [][ last'.op = "has" =>
        /\ last'.ret = (IF FileExists(fs, CachePath(cs.storageRoot, last'.key))
                        THEN "true" ELSE "false")
        /\ UNCHANGED <<fs, dirs, cs, handles>> ]_vars

\* has returned true for a file a previous process left, in a process that
\* has opened no handle.
C18_Witness ==
  /\ last.op = "has"
  /\ last.ret = "true"
  /\ cs.initialized
  /\ DOMAIN cs.caches = {}
  /\ handles = << >>

\* C19: while the shim is installed, length is the number of distinct keys
\* stored; key(i) returns a key exactly for 0 <= i < length; the keys
\* returned for 0..length-1 are pairwise distinct, and they are exactly the
\* keys for which getItem returns a value (probed: the keys a script sets
\* and two names it never sets).
C19_KeysLengthAndGetItemAgree ==
  globalLocalStorage = "shim" =>
    LET n == length(ls)
        stored == { ls.storageData[i][1] : i \in 1..Len(ls.storageData) }
        probes == KVKeys \cup {"constructor", "toString"}
    IN
    /\ n = Cardinality(stored)
    /\ \A i \in 0..(Cardinality(KVKeys) + 1) :
         (key(ls, i).kind = "string") <=> (i < n)
    /\ \A i, j \in 0..(n - 1) :
         key(ls, i).value = key(ls, j).value => i = j
    /\ \A k \in probes :
         (getItem(ls, k).kind # "null")
           <=> (\E i \in 0..(n - 1) : key(ls, i).value = k)

\* C20 as stated: on linux and on darwin alike, cacheDir returns
\* XDG_CACHE_HOME when it is set, and otherwise HOME/.cache (linux) or
\* HOME/Library/Caches (darwin) when HOME is set.
C20_CacheHomePreferredOnUnix ==
  (last.op = "cacheDir" /\ env.os \in {"linux", "darwin"}) =>
    IF env.XDG_CACHE_HOME # "" THEN last.ret = env.XDG_CACHE_HOME
    ELSE env.HOME # "" =>
           last.ret = env.HOME \o (IF env.os = "linux" THEN "/.cache"
                                   ELSE "/Library/Caches")

\* C20 amended: on linux cacheDir returns XDG_CACHE_HOME when it is set to
\* a non-empty value, and otherwise HOME/.cache when HOME is; on darwin it
\* returns HOME/Library/Caches when HOME is set, whatever XDG_CACHE_HOME is.
C20_CacheHomePreferredOnLinuxOnly ==
  last.op = "cacheDir" =>
    /\ env.os = "linux" =>
         IF env.XDG_CACHE_HOME # "" THEN last.ret = env.XDG_CACHE_HOME
         ELSE env.HOME # "" => last.ret = env.HOME \o "/.cache"
    /\ (env.os = "darwin" /\ env.HOME # "") =>
         last.ret = env.HOME \o "/Library/Caches"

\* On darwin with XDG_CACHE_HOME and HOME both set, cacheDir has returned
\* HOME/Library/Caches.
C20_Witness ==
  /\ last.op = "cacheDir"
  /\ env.os = "darwin"
  /\ env.XDG_CACHE_HOME = "/xdg"
  /\ last.ret = "/home/u/Library/Caches"

\* C21: the namespace id a process uses (the last segment of the caches
\* storage root, the name of the localStorage file) is 16 characters, each a
\* lowercase hexadecimal digit, and they spell the first 8 bytes of the
\* SHA-256 digest of the module URL of the process: the same URL gives the
\* same id in every process.
C21_NamespaceIdIsDigestPrefix ==
  LET Value(c) == CHOOSE n \in 0..16 :
                    n = 16 \/ SubSeq("0123456789abcdef", n + 1, n + 1) = c
      IsIdOf(id, url) ==
        /\ Len(id) = 16
        /\ \A i \in 1..16 : Value(SubSeq(id, i, i)) < 16
        /\ \A i \in 1..8 :
             Value(SubSeq(id, 2 * i - 1, 2 * i - 1)) * 16
               + Value(SubSeq(id, 2 * i, 2 * i)) = digestSHA256(url)[i]
  IN
  /\ cs.initialized =>
       IsIdOf(cs.storageRoot[Len(cs.storageRoot)], proc.base \o CachesModule)
  /\ globalLocalStorage = "shim" =>
       LET file == ls.storagePath[Len(ls.storagePath)] IN
       /\ SubSeq(file, 17, Len(file)) = ".json"
       /\ IsIdOf(SubSeq(file, 1, 16), proc.base \o LocalStorageModule)

\* A second process of the same executable has initialised its caches
\* storage under the id of the first, whose cache file it finds there.
C21_Witness ==
  /\ runs = 2
  /\ cs.initialized
  /\ \E q \in DOMAIN fs : IsPrefix(cs.storageRoot, q)

\* C22: a backing file that does not parse keeps its bytes until a mutating
\* operation (setItem, removeItem, clear, put, delete, or the delete of the
\* whole cache) succeeds: no setup and no load rewrites or removes it.
C22_BrokenFileStaysUntilAWrite ==
  [][ \A q \in DOMAIN fs :
        (/\ ~Parses(fs[q])
         /\ (q \notin DOMAIN fs' \/ fs'[q] # fs[q]))
          => /\ last'.op \in {"setItem", "removeItem", "clear", "put",
                               "delete", "caches.delete"}
             /\ last'.status = "ok" ]_vars

C24_LastWriterWins ==
  [][ /\ (last'.op \in {"setItem", "removeItem", "clear"}
          /\ last'.status = "ok")
           => fs'[ls'.storagePath] = JSONstringify(ls'.storageData)
      /\ (/\ last'.op \in {"put", "delete"}
          /\ last'.status = "ok"
          /\ last'.op = "delete" => last'.ret = "true")
           => fs'[handles'[last'.h].storagePath]
                = JSONstringify(handles'[last'.h].data) ]_vars

\* Both key-value instances have set a key of their own; the file holds the
\* document of the one that wrote last, without the key of the other.
C24_Witness ==
  /\ last.op = "setItem" /\ last.status = "ok"
  /\ \E k \in KVKeys : HasOwn(peer.storageData, k) /\ ~HasOwn(ls.storageData, k)
  /\ \E k \in KVKeys : HasOwn(ls.storageData, k) /\ ~HasOwn(peer.storageData, k)
  /\ fs[ls.storagePath] = JSONstringify(ls.storageData)
  /\ fs[ls.storagePath] # JSONstringify(peer.storageData)

\* C25: once a CacheStorage instance is installed as globalThis.caches it
\* stays: no step of any setupCachesPolyfill call, the module's own or one
\* the script starts while other calls are in flight, installs another
\* instance in its place.  The installed instance keeps its storage root
\* and its open handles; only CacheStorage.delete takes a handle out.
C25_OneInstanceInstalled ==
  [][ globalCaches = "polyfill" =>
        /\ globalCaches' = "polyfill"
        /\ cachesPolyfillInitialized'
        /\ cs'.initialized
        /\ cs'.storageRoot = cs.storageRoot
        /\ \A n \in DOMAIN cs.caches :
             \/ n \in DOMAIN cs'.caches /\ cs'.caches[n] = cs.caches[n]
             \/ \E t \in 1..MaxTasks :
                  /\ tasks[t].op = "caches.delete"
                  /\ tasks[t].pc = "init"
                  /\ tasks'[t].pc # "init" ]_vars

\* Two setupCachesPolyfill calls of the script have returned, the second
\* started while another call was in flight, and the instance installed by
\* the module's own call still holds the handle opened on it.
C25_Witness ==
  /\ globalCaches = "polyfill"
  /\ \E t, u \in 1..MaxTasks :
       /\ t # u
       /\ tasks[t].op = "setupCachesPolyfill" /\ tasks[t].pc = "done"
       /\ tasks[u].op = "setupCachesPolyfill" /\ tasks[u].pc = "done"
       /\ tasks[u].overlapped
  /\ PlainName \in DOMAIN cs.caches

C27_DeletedRecordsStayGone ==
  [][ (last.op = "caches.delete" /\ last.status = "ok" /\ last.ret = "true") =>
        \A h \in 1..Len(handles) :
          (handles[h].cacheName = last.key /\ last'.h = h) =>
            /\ last'.op = "match" => last'.resp = NoResponse
            /\ (last'.op = "put" /\ last'.status = "ok") =>
                 LET written ==
                       EntriesOf(LoadedData(fs', handles[h].storagePath))
                 IN
                 \A i \in 1..Len(written) :
                   written[i][1] = getRequestKey(NewRequest(last'.req)) ]_vars

\* C28: when addAll has resolved, so that every put it started has completed,
\* and no call but open and match has run beside it, each request of its
\* batch has its record in the handle's #data and in the backing file.
C28_OverlappingPutsKeepEveryEntry ==
  \A t \in 1..MaxTasks :
    (/\ tasks[t].op = "addAll"
     /\ tasks[t].pc = "done" /\ tasks[t].status = "ok"
     /\ \A u \in 1..MaxTasks \ {t} : tasks[u].op \in {"none", "open", "match"})
      => LET c == handles[tasks[t].h] IN
         \A i \in 1..Len(tasks[t].batch) :
           LET k == getRequestKey(NewRequest(tasks[t].batch[i])) IN
           /\ HasOwn(EntriesOf(c.data), k)
           /\ FileExists(fs, c.storagePath)
           /\ HasOwn(EntriesOf(LoadedData(fs, c.storagePath)), k)

\* C29: a setItem, removeItem or clear whose write of the file fails leaves
\* storageData as it was before the call, and a put or delete of a handle
\* whose write fails leaves #data as it was once loaded, before the call
\* changed it.
C29_FailedWriteLeavesDocument ==
  [][ (last'.status = "throw" /\ "write" \in last'.io) =>
        /\ last'.op \in {"setItem", "removeItem", "clear"} =>
             ls'.storageData = ls.storageData
        /\ last'.op \in {"put", "delete"} =>
             LET c == handles[last'.h] IN
             handles'[last'.h].data =
               IF c.loaded THEN c.data ELSE LoadedData(fs, c.storagePath)
    ]_vars

\* C30: directly after a successful put(i, r) on a handle, match(i) on that
\* handle returns a response and delete(i) returns true, whichever form the
\* input i has.
C30_SameKeyForSameInput ==
  [][ (/\ last.op = "put" /\ last.status = "ok"
       /\ last'.h = last.h /\ last'.req = last.req
       /\ last'.status = "ok") =>
        /\ last'.op = "match" => last'.resp # NoResponse
        /\ last'.op = "delete" => last'.ret = "true" ]_vars

\* C31: when addAll has failed with the error of a refused request, and no
\* call but open and match has run beside it, no request of its batch has a
\* record in the handle's #data or in the backing file (the record of UrlA
\* that an earlier run left in the file apart).
C31_AddAllStoresAllOrNothing ==
  \A t \in 1..MaxTasks :
    (/\ tasks[t].op = "addAll"
     /\ tasks[t].status = "throw"
     /\ \A u \in 1..MaxTasks \ {t} : tasks[u].op \in {"none", "open", "match"})
      => LET c == handles[tasks[t].h] IN
         \A i \in 1..Len(tasks[t].batch) :
           LET k == getRequestKey(NewRequest(tasks[t].batch[i])) IN
           k # getRequestKey(UrlA) =>
             /\ ~HasOwn(EntriesOf(c.data), k)
             /\ FileExists(fs, c.storagePath) =>
                  ~HasOwn(EntriesOf(LoadedData(fs, c.storagePath)), k)

\* C32: in a process that runs as a compiled executable, a call of
\* setupLocalStorage leaves the value of isStandaloneDenoExe as it was, the
\* call that installs the shim included.
C32_StandaloneDetectionIsStable ==
  [][ (proc.standalone /\ last'.op = "setupLocalStorage") =>
        (isStandaloneDenoExe' <=> isStandaloneDenoExe) ]_vars

\* C33: the backing file of the name given to open, has or
\* CacheStorage.delete lies directly in the namespace directory of the
\* process, <cacheDir>/deno-cache-api/<namespaceId>, the file of the handle
\* that open returns included, and no other name has the same file.
C33_CacheFileInsideNamespace ==
  (last.op \in {"open", "has", "caches.delete"} /\ globalCaches = "polyfill") =>
    LET root == StorageRoot(cacheDir(env), proc.base \o CachesModule)
        file == CachePath(cs.storageRoot, last.key)
    IN
    /\ cs.storageRoot = root
    /\ dirname(file) = root
    /\ last.op = "open" => dirname(handles[last.h].storagePath) = root
    /\ \A n \in CacheNames \ {last.key} : CachePath(cs.storageRoot, n) # file

\* C34: setItem(k, v) and removeItem(k) leave the result of getItem as it
\* was for every key but k, and after any call on the shim getItem returns
\* null for a key that the document does not hold (probed: the keys a script
\* sets and two names it never sets).
C34_OnlyTheKeyChanges ==
  [][ LET probes == KVKeys \cup {"constructor", "toString"} IN
      /\ (globalLocalStorage = "shim"
          /\ last'.op \in {"setItem", "removeItem"}) =>
           \A k2 \in probes \ {last'.key} :
             getItem(ls', k2) = getItem(ls, k2)
      /\ (globalLocalStorage' = "shim"
          /\ last'.op \in {"setItem", "removeItem", "clear"}) =>
           \A k \in probes :
             ~HasOwn(ls'.storageData, k) => getItem(ls', k).kind = "null"
    ]_vars

====
